---- MODULE Spec2Model ----
(***************************************************************************)
(* Session and broadcast subsystem of the net-cat TCP chat server.        *)
(*                                                                         *)
(* Tasks: the Acceptor (acceptLoop), one connection handler per accepted   *)
(* connection (handleConnection / handleClientMessages), the Dispatcher    *)
(* (broadcastLoop) and the Reaper (cleanInactiveConnections).  Shared      *)
(* state: clients, activeNames, the broadcast channel and the messages     *)
(* slice.  Every step below is one critical section or one channel or      *)
(* socket operation of the Go code; steps of different tasks interleave.   *)
(* Spec: the running server, done open (no call of Start or Stop).         *)
(* SpecLife, FairSpecLife: the server from New on, with calls of Start and *)
(* Stop.  SpecClose: Client.Close.  SpecRate: the rate limit of a handler. *)
(* SpecNames: names character by character.  SpecSink: the log file.      *)
(* FairSpec: Spec with fair goroutines.  SpecValidate: ValidateUsername.  *)
(* SpecLocks: the two registry locks.                                      *)
(***************************************************************************)
EXTENDS Integers, Sequences, FiniteSets, TLC

\* ---- bounds of the model ------------------------------------------------
NumSessions == 2        \* connections that arrive at the listener
MaxInputs == 2          \* lines read from client sockets, all sessions together
MaxFaults == 1          \* peers that hang up, go silent or stop reading
MaxClients == 2         \* largest cfg.MaxClients tried (10 by default)
BroadcastBufferSize == 2 \* capacity of the broadcast channel (100 in New)
NumClosers == 3         \* tasks that call Close on the same Client
MaxCloseCalls == 2      \* calls of Close by each of them
MaxRateLimit == 2       \* largest cfg.MessageRateLimit tried, in clock ticks
MaxTime == 4            \* clock ticks of the rate limit runs
MaxLines == 3           \* lines read in the rate limit runs
MaxMessageSize == 2     \* largest cfg.MaxMessageSize tried (1024 by default)
MaxClientTimeout == 2   \* largest cfg.ClientTimeout tried, in clock ticks
NumStopCalls == 2       \* calls of Server.Stop
NumStartCalls == 2      \* calls of Server.Start

\* ---- program constants --------------------------------------------------
maxNameChanges == 2

Names == {"a", "b"}
FirstName == "a"        \* names are interchangeable: the first one offered
BadName == "!"          \* an argument that ValidateUsername rejects
NoName == ""
SYSTEM == "SYSTEM"

S == 1..NumSessions
Closers == 1..NumClosers
StopCalls == 1..NumStopCalls
StartCalls == 1..NumStartCalls
NoSession == 0

VARIABLES
    pc,           \* pc[s]: position of the handler of connection s
    state,        \* Client.state
    name,         \* Client.name
    nameHistory,  \* Client.nameHistory
    connClosed,   \* the server side closed Conn
    peerClosed,   \* the remote end closed the connection
    throttled,    \* now - lastMessageTime < cfg.MessageRateLimit
    line,         \* the line ReadString returned, being processed
    inbox,        \* message lines written to the connection, in order
    pending,      \* id of a write to the connection that outlived its timeout
    histLen,      \* length of the copy made by sendMessageHistory
    histPos,      \* lines of that copy already sent
    clients,      \* Server.clients: name -> session (NoSession: no entry)
    activeNames,  \* Server.activeNames
    broadcast,    \* Server.broadcast channel
    messages,     \* Server.messages
    acc,          \* acceptLoop
    nextConn,     \* next connection to arrive
    disp,         \* broadcastLoop
    reap,         \* cleanInactiveConnections
    nextId,       \* next message id
    inputs,       \* lines read so far
    cfg,          \* Server.cfg, fixed by New
    life,         \* Server.isRunning, done, ln, lnMu and the calls of Start and Stop
    cl,           \* one Client and the tasks that call its Close
    rl,           \* one handler's clock and lastMessageTime
    nm,           \* one client's names, spelled out character by character
    lg,           \* the channel, the transcript and the log file's writers
    vu,           \* one call of ValidateUsername: name, limit and result
    lk,           \* clientsMu, activeNamesMu and the tasks that take them
    faults        \* peers that hung up, went silent or stopped reading so far

sessVars == <<pc, state, name, nameHistory, connClosed, peerClosed,
              throttled, line, inbox, pending, histLen, histPos>>
srvVars == <<clients, activeNames, broadcast, messages>>
auxVars == <<life, cl, rl, nm, lg, vu, lk>>
taskVars == <<acc, nextConn, disp, reap, nextId, inputs, cfg, faults, auxVars>>
vars == <<sessVars, srvVars, taskVars>>

\* ---- messages -----------------------------------------------------------
\* protocol.Message with its bookkeeping: origin is the session whose line it
\* is (NoSession for a SYSTEM message), by the handler that posted it
\* (NoSession: Dispatcher or Reaper), who the name a notice is about, about
\* the session whose end a notice reports.
Message(id, from, kind, who, origin, by) ==
    [id |-> id, from |-> from, kind |-> kind, who |-> who,
     origin |-> origin, by |-> by, about |-> NoSession]

SystemMessage(id, kind, who, by) ==
    Message(id, SYSTEM, kind, who, NoSession, by)

NoMessage == Message(0, NoName, "none", NoName, NoSession, NoSession)

NoLine == [type |-> "none", arg |-> NoName]

Lines ==
    {[type |-> t, arg |-> NoName] : t \in {"chat", "big", "malformed", "empty"}}
    \cup {[type |-> "name", arg |-> n] : n \in Names \cup {BadName}}

\* ---- helpers ------------------------------------------------------------
Registered == {n \in Names : clients[n] # NoSession}

Full(q) == Len(q) >= BroadcastBufferSize

\* C7, altered channel: the newest message overtakes the queued ones
EnqueueFront(q, m) == <<m>> \o q

Enqueue(q, m) == Append(q, m)

\* C3, altered acceptLoop: the capacity check is missing
AtCapacityOff == FALSE

AtCapacity == cfg.MaxClients > 0 /\ Cardinality(Registered) >= cfg.MaxClients

ValidateUsername(n) == n \in Names

CanChangeName(s) == Len(nameHistory[s]) < maxNameChanges

\* Client.Send: refused unless the client is Active, fails on a closed Conn
CanSend(s) == state[s] = "Active" /\ ~connClosed[s]

\* a line written to the connection of s
Deliver(box, s, entry) == [box EXCEPT ![s] = Append(@, entry)]

Entry(id, via) == [id |-> id, via |-> via]

\* recipients of msg as broadcastLoop selects them
Recipients(msg) ==
    {clients[n] : n \in {k \in Registered :
        /\ state[clients[k]] = "Active"
        /\ (msg.from = SYSTEM \/ name[clients[k]] # msg.from)}}

ActiveRegistered == {clients[n] : n \in {k \in Registered : state[clients[k]] = "Active"}}

\* the server as New builds it, no connection accepted yet
InitServer ==
    /\ pc = [s \in S |-> "idle"]
    /\ state = [s \in S |-> "Connecting"]
    /\ name = [s \in S |-> NoName]
    /\ nameHistory = [s \in S |-> <<>>]
    /\ connClosed = [s \in S |-> FALSE]
    /\ peerClosed = [s \in S |-> FALSE]
    /\ throttled = [s \in S |-> FALSE]
    /\ line = [s \in S |-> NoLine]
    /\ inbox = [s \in S |-> <<>>]
    /\ pending = [s \in S |-> 0]
    /\ histLen = [s \in S |-> 0]
    /\ histPos = [s \in S |-> 0]
    /\ clients = [n \in Names |-> NoSession]
    /\ activeNames = {}
    /\ broadcast = <<>>
    /\ messages = <<>>
    /\ nextConn = 1
    /\ nextId = 1
    /\ inputs = 0
    /\ cfg \in [MaxClients : 1..MaxClients]
    /\ faults = 0

\* the three goroutines Start launches, each at the top of its loop
AcceptorStarted == [pc |-> "accept", cur |-> NoSession]

DispatcherStarted ==
    [pc |-> "recv", msg |-> NoMessage, rcpts |-> {}, elig |-> {},
     todo |-> {}, failed |-> <<>>, dname |-> NoName]

ReaperStarted == [pc |-> "tick", todo |-> {}, cur |-> NoSession, curName |-> NoName]

\* a Client as client.New builds it, and the tasks about to call Close
\* closed: Client.closed; fired: times close(c.done) ran; connCloses: calls of
\* Conn.Close made by Close; connOpen: the connection is open; mu: holder of
\* Client.mu (0: free); rets: what the calls of Close returned, in order
ClientNew ==
    [closed |-> FALSE, fired |-> 0, connCloses |-> 0, connOpen |-> TRUE,
     mu |-> 0, pc |-> [k \in Closers |-> "idle"],
     calls |-> [k \in Closers |-> 0], rets |-> <<>>]

\* the lifecycle fields of a Server as New builds it, and the calls of Start
\* and Stop about to be made
\*   isRunning  Server.isRunning
\*   done       the channel New made: "open" or "closed"
\*   doneNil    s.done = nil
\*   ln         Server.ln: "nil" or "open" (Stop closes it and sets it to nil)
\*   lnMu       holder of Server.lnMu: "free", "acceptor", "start", "stop"
\*   cap        the value handleConnection read into its local done: "none"
\*              (not read yet), "ch" (the channel) or "nil"
\*   hc         handleConnection in the shutdown branch of its last select:
\*              "none", "mark", "send", "returned"
\*   farewell   "Server shutting down..." lines written to the connection
\*   stop       the calls of Stop: position, whether the call found the server
\*              not running (noop), and what it returned
\*   snap, g    the clients Stop copied and the position of the goroutine
\*              it started for each: "none", "mark", "send", "close", "done"
\*   atStop     the sessions registered and Active when Stop began
\*   start      the calls of Start: position and what the call returned
\*   reapDone   the value of s.done cleanInactiveConnections waits on
\*   crashed    acceptLoop called Accept on a nil listener: the process died
\*              (every position is then "dead")
LifeNew ==
    [isRunning |-> FALSE, done |-> "open", doneNil |-> FALSE, ln |-> "nil",
     lnMu |-> "free",
     cap |-> [s \in S |-> "none"], hc |-> [s \in S |-> "none"],
     farewell |-> [s \in S |-> 0],
     stop |-> [k \in StopCalls |-> [pc |-> "idle", noop |-> FALSE, ret |-> "none"]],
     snap |-> {}, g |-> [s \in S |-> "none"], atStop |-> {},
     start |-> [j \in StartCalls |-> [pc |-> "idle", ret |-> "none"]],
     reapDone |-> "none", crashed |-> FALSE]

\* a server after a successful Start: running, the acceptor inside Accept
\* holding lnMu, with no call of Start or Stop under way
LifeStarted ==
    [LifeNew EXCEPT !.isRunning = TRUE, !.ln = "open", !.lnMu = "acceptor",
                    !.reapDone = "ch"]

\* one client's names before it connected: the configured MaxNameChanges and
\* MaxNameLength, where the connection stands (pc), Client.name and
\* Client.nameHistory, s.activeNames, the messages placed on the channel (bus)
\* and what became of every /name line (log)
NamesOff ==
    [pc |-> "off", maxChanges |-> 0, maxLength |-> 0, name |-> <<>>,
     nameHistory |-> <<>>, activeNames |-> {}, bus |-> <<>>, log |-> <<>>]

\* the channel, the transcript and the log file before the server runs:
\* whether cfg.LogFile is set, whether opening the file fails, the channel
\* (broadcast), s.messages, what a listening client was sent (shown), the
\* messages whose logMessage goroutine is still to run (writers), the lines
\* in the file, and the counts of lines clients sent and of messages the
\* Dispatcher handled
SinkOff ==
    [logFile |-> FALSE, failing |-> FALSE, broadcast |-> <<>>,
     messages |-> <<>>, shown |-> <<>>, writers |-> <<>>, file |-> <<>>,
     lines |-> 0, handled |-> 0]

\* no call of ValidateUsername: the name as its code points, the limit, and
\* the result ("none": not called, "": nil, otherwise the check that failed)
ValidateOff == [name |-> <<>>, max |-> 0, result |-> "none"]

\* the tasks that take the registry locks
LockTasks ==
    {"stop", "disconnect", "rename", "register", "reaper", "dispatcher"}

\* both locks free and every task outside its locking code: at[t] counts the
\* lock operations task t has done in its current run (0: not running)
LocksOff ==
    [clientsMu |-> "free", readers |-> {}, activeNamesMu |-> "free",
     at |-> [k \in LockTasks |-> 0]]

\* one handler's view of time: now, lastMessageTime (last), the configured
\* MessageRateLimit (limit), MaxMessageSize (maxSize) and ClientTimeout
\* (timeout), Client.activity, the number of lines placed on the channel
\* (sent), what became of every line read (log), whether mainLoop was left
\* (ended), and whether and when the Reaper evicted the client
ClockOff ==
    [now |-> 0, last |-> 0, limit |-> 0, maxSize |-> 0, timeout |-> 0,
     activity |-> 0, sent |-> 0, log |-> <<>>, ended |-> FALSE,
     evicted |-> FALSE, evictedAt |-> 0]

\* the state after New and Start
Init ==
    /\ InitServer
    /\ acc = AcceptorStarted
    /\ disp = DispatcherStarted
    /\ reap = ReaperStarted
    /\ life = LifeStarted
    /\ cl = ClientNew
    /\ rl = ClockOff
    /\ nm = NamesOff
    /\ lg = SinkOff
    /\ vu = ValidateOff
    /\ lk = LocksOff


\* ---- Acceptor: acceptLoop ------------------------------------------------
\* Accept returns connection nextConn; at capacity it is closed at once and
\* the loop calls Accept again, otherwise lnMu is released, the handler is
\* started (its first step reads s.done into its local done) and the loop
\* waits on handlerReady.  acc.pc = "accept": inside Accept, holding lnMu.
AcceptReject ==
    /\ acc.pc = "accept"
    /\ nextConn <= NumSessions
    /\ AtCapacity
    /\ pc' = [pc EXCEPT ![nextConn] = "rejected"]
    /\ connClosed' = [connClosed EXCEPT ![nextConn] = TRUE]
    /\ nextConn' = nextConn + 1
    /\ UNCHANGED <<state, name, nameHistory, peerClosed, throttled,
                   line, inbox, pending, histLen, histPos,
                   srvVars, acc, disp, reap, nextId, inputs, cfg, auxVars, faults>>

AcceptSpawn ==
    /\ acc.pc = "accept"
    /\ nextConn <= NumSessions
    /\ ~AtCapacity
    /\ pc' = [pc EXCEPT ![nextConn] = "auth"]
    /\ acc' = [pc |-> "wait", cur |-> nextConn]
    /\ nextConn' = nextConn + 1
    /\ life' = [life EXCEPT
                  !.lnMu = "free",
                  !.cap[nextConn] = IF life.doneNil THEN "nil" ELSE "ch"]
    /\ UNCHANGED <<state, name, nameHistory, connClosed, peerClosed,
                   throttled, line, inbox, pending, histLen, histPos, srvVars,
                   disp, reap, nextId, inputs, cfg, cl, rl, nm, lg, vu, lk, faults>>

\* handleConnection has returned
HandlerReady(s) == pc[s] = "done" \/ life.hc[s] = "returned"

\* acceptLoop can go round: it was just started, or handlerReady.Wait()
\* returned
AcceptorAtTop ==
    /\ acc.pc = "wait"
    /\ IF acc.cur = NoSession THEN TRUE ELSE HandlerReady(acc.cur)

\* the loop takes lnMu and calls Accept on the listener
AcceptResume ==
    /\ AcceptorAtTop
    /\ life.lnMu = "free"
    /\ life.ln = "open"
    /\ acc' = [pc |-> "accept", cur |-> NoSession]
    /\ life' = [life EXCEPT !.lnMu = "acceptor"]
    /\ UNCHANGED <<sessVars, srvVars, nextConn, disp, reap, nextId, inputs,
                   cfg, cl, rl, nm, lg, vu, lk, faults>>

\* handleConnection returns: the deferred conn.Close() runs and nothing refers
\* to the handler's locals any more; the Client itself may still be referenced
\* by the clients map, the Dispatcher or the Reaper, which read its state and
\* name only.
Return(s) ==
    /\ pc' = [pc EXCEPT ![s] = "done"]
    /\ connClosed' = [connClosed EXCEPT ![s] = TRUE]
    /\ pending' = [pending EXCEPT ![s] = 0]
    /\ nameHistory' = [nameHistory EXCEPT ![s] = <<>>]
    /\ peerClosed' = [peerClosed EXCEPT ![s] = FALSE]
    /\ throttled' = [throttled EXCEPT ![s] = FALSE]
    /\ line' = [line EXCEPT ![s] = NoLine]
    /\ inbox' = [inbox EXCEPT ![s] = <<>>]
    /\ histLen' = [histLen EXCEPT ![s] = 0]
    /\ histPos' = [histPos EXCEPT ![s] = 0]
    /\ UNCHANGED <<state, name>>

\* ---- handleConnection ----------------------------------------------------
\* Authenticate succeeds with a valid name; the client is made Active and
\* named before it is registered.
Authenticate(s) ==
    /\ pc[s] = "auth"
    /\ \E n \in Names :
        /\ ValidateUsername(n)
        /\ n = FirstName \/ \E t \in S : name[t] # NoName
        /\ name' = [name EXCEPT ![s] = n]
    /\ state' = [state EXCEPT ![s] = "Active"]
    /\ pc' = [pc EXCEPT ![s] = "regNames"]
    /\ UNCHANGED <<nameHistory, connClosed, peerClosed, throttled,
                   line, inbox, pending, histLen, histPos,
                   srvVars, taskVars>>

\* invalid name or read error: handleConnection returns, conn is closed
AuthFail(s) ==
    /\ pc[s] = "auth"
    /\ Return(s)
    /\ UNCHANGED <<srvVars, taskVars>>

\* registerClient, first critical section (activeNamesMu)
RegisterName(s) ==
    /\ pc[s] = "regNames"
    /\ name[s] \notin activeNames
    /\ activeNames' = activeNames \cup {name[s]}
    /\ pc' = [pc EXCEPT ![s] = "regClients"]
    /\ UNCHANGED <<state, name, nameHistory, connClosed, peerClosed,
                   throttled, line, inbox, pending, histLen, histPos, clients, broadcast, messages, taskVars>>

\* C24, altered registerClient: a taken name is freed for the newcomer's sake
RegisterNameTakenEvict(s) ==
    /\ pc[s] = "regNames"
    /\ name[s] \in activeNames
    /\ Return(s)
    /\ clients' = [clients EXCEPT ![name[s]] = NoSession]
    /\ activeNames' = activeNames \ {name[s]}
    /\ UNCHANGED <<broadcast, messages, taskVars>>

\* the name is in activeNames: registerClient returns "name already in use",
\* handleConnection returns and its deferred conn.Close() runs
RegisterNameTaken(s) ==
    /\ pc[s] = "regNames"
    /\ name[s] \in activeNames
    /\ Return(s)
    /\ UNCHANGED <<srvVars, taskVars>>

\* registerClient, second critical section (clientsMu)
RegisterClient(s) ==
    /\ pc[s] = "regClients"
    /\ clients' = [clients EXCEPT ![name[s]] = s]
    /\ pc' = [pc EXCEPT ![s] = "hist"]
    /\ UNCHANGED <<state, name, nameHistory, connClosed, peerClosed,
                   throttled, line, inbox, pending, histLen, histPos,
                   activeNames, broadcast, messages, taskVars>>

\* sendMessageHistory: copy of messages under messagesMu
HistorySnapshot(s) ==
    /\ pc[s] = "hist"
    /\ histLen' = [histLen EXCEPT ![s] = Len(messages)]
    /\ histPos' = [histPos EXCEPT ![s] = 0]
    /\ pc' = [pc EXCEPT ![s] = "histSend"]
    /\ UNCHANGED <<state, name, nameHistory, connClosed, peerClosed,
                   throttled, line, inbox, pending,
                   srvVars, taskVars>>

\* sendMessageHistory: one c.Send of the copy
HistorySend(s) ==
    /\ pc[s] = "histSend"
    /\ histPos[s] < histLen[s]
    /\ CanSend(s)
    /\ inbox' = Deliver(inbox, s, Entry(messages[histPos[s] + 1].id, "hist"))
    /\ histPos' = [histPos EXCEPT ![s] = @ + 1]
    /\ UNCHANGED <<pc, state, name, nameHistory, connClosed, peerClosed, throttled, line, pending, histLen,
                   srvVars, taskVars>>

\* the copy is exhausted or a Send failed: the handler goroutine starts,
\* handleClientMessages sets lastMessageTime and the state
HistoryDone(s) ==
    /\ pc[s] = "histSend"
    /\ histPos[s] = histLen[s] \/ ~CanSend(s)
    /\ state' = [state EXCEPT ![s] = "Active"]
    /\ throttled' = [throttled EXCEPT ![s] = FALSE]
    /\ pc' = [pc EXCEPT ![s] = "loop"]
    /\ UNCHANGED <<name, nameHistory, connClosed, peerClosed, line,
                   inbox, pending, histLen, histPos,
                   srvVars, taskVars>>


\* ---- handleClientMessages ------------------------------------------------
\* SendPrompt succeeded and ReadString returned a line
ReadLine(s) ==
    /\ pc[s] = "loop"
    /\ ~connClosed[s] /\ ~peerClosed[s]
    /\ inputs < MaxInputs
    /\ \E l \in Lines : line' = [line EXCEPT ![s] = l]
    /\ inputs' = inputs + 1
    /\ pc' = [pc EXCEPT ![s] = "process"]
    /\ UNCHANGED <<state, name, nameHistory, connClosed, peerClosed,
                   throttled, inbox, pending, histLen, histPos,
                   srvVars, acc, nextConn, disp, reap, nextId, cfg, auxVars, faults>>

\* SendPrompt or ReadString failed: break mainLoop
ReadFail(s) ==
    /\ pc[s] = "loop"
    /\ connClosed[s] \/ peerClosed[s]
    /\ pc' = [pc EXCEPT ![s] = "cleanup"]
    /\ UNCHANGED <<state, name, nameHistory, connClosed, peerClosed,
                   throttled, line, inbox, pending, histLen, histPos, srvVars, taskVars>>

\* C25, altered loop: every rejection breaks mainLoop
ErrReplyBreak(s) == pc' = [pc EXCEPT ![s] = "cleanup"]

\* c.Send(errMsg) to the sender alone; a failed Send breaks mainLoop
ErrReply(s) ==
    IF CanSend(s)
    THEN pc' = [pc EXCEPT ![s] = "loop"]
    ELSE pc' = [pc EXCEPT ![s] = "cleanup"]

ProcessEmpty(s) ==
    /\ pc[s] = "process"
    /\ line[s].type = "empty"
    /\ pc' = [pc EXCEPT ![s] = "loop"]
    /\ line' = [line EXCEPT ![s] = NoLine]
    /\ UNCHANGED <<state, name, nameHistory, connClosed, peerClosed,
                   throttled, inbox, pending, histLen, histPos,
                   srvVars, taskVars>>

\* rate limit, checked first for every non-empty line
ProcessThrottled(s) ==
    /\ pc[s] = "process"
    /\ line[s].type # "empty"
    /\ throttled[s]
    /\ ErrReply(s)
    /\ line' = [line EXCEPT ![s] = NoLine]
    /\ UNCHANGED <<inbox, state, name, nameHistory, connClosed, peerClosed,
                   throttled, pending, histLen, histPos,
                   srvVars, taskVars>>

\* len(message) > cfg.MaxMessageSize
ProcessOversize(s) ==
    /\ pc[s] = "process"
    /\ line[s].type = "big"
    /\ ~throttled[s]
    /\ ErrReply(s)
    /\ line' = [line EXCEPT ![s] = NoLine]
    /\ UNCHANGED <<inbox, state, name, nameHistory, connClosed, peerClosed,
                   throttled, pending, histLen, histPos,
                   srvVars, taskVars>>

\* /name with a wrong argument count or a forbidden character
ProcessMalformedName(s) ==
    /\ pc[s] = "process"
    /\ line[s].type = "malformed"
    /\ ~throttled[s]
    /\ throttled' = [throttled EXCEPT ![s] = TRUE]
    /\ ErrReply(s)
    /\ line' = [line EXCEPT ![s] = NoLine]
    /\ UNCHANGED <<inbox, state, name, nameHistory, connClosed, peerClosed,
                   pending, histLen, histPos, srvVars, taskVars>>

\* handleNameChange returns an error
ProcessNameRejected(s) ==
    /\ pc[s] = "process"
    /\ line[s].type = "name"
    /\ ~throttled[s]
    /\ \/ ~CanChangeName(s)
       \/ ~ValidateUsername(line[s].arg)
       \/ line[s].arg \in activeNames
    /\ throttled' = [throttled EXCEPT ![s] = TRUE]
    /\ ErrReply(s)
    /\ line' = [line EXCEPT ![s] = NoLine]
    /\ UNCHANGED <<inbox, state, name, nameHistory, connClosed, peerClosed,
                   pending, histLen, histPos, srvVars, taskVars>>

\* handleNameChange succeeds: one critical section under both locks, the
\* notice is posted inside it and dropped when the channel stays full
ProcessNameChange(s) ==
    /\ pc[s] = "process"
    /\ line[s].type = "name"
    /\ ~throttled[s]
    /\ CanChangeName(s)
    /\ ValidateUsername(line[s].arg)
    /\ line[s].arg \notin activeNames
    /\ LET old == name[s]
           new == line[s].arg
       IN /\ activeNames' = (activeNames \ {old}) \cup {new}
          /\ clients' = [[clients EXCEPT ![old] = NoSession] EXCEPT ![new] = s]
          /\ nameHistory' = [nameHistory EXCEPT ![s] = Append(@, old)]
          /\ name' = [name EXCEPT ![s] = new]
          /\ IF Full(broadcast)
             THEN UNCHANGED <<broadcast, nextId>>
             ELSE /\ broadcast' = Enqueue(broadcast,
                                    SystemMessage(nextId, "rename", old, s))
                  /\ nextId' = nextId + 1
    /\ throttled' = [throttled EXCEPT ![s] = TRUE]
    /\ pc' = [pc EXCEPT ![s] = "loop"]
    /\ line' = [line EXCEPT ![s] = NoLine]
    /\ UNCHANGED <<state, connClosed, peerClosed, inbox,
                   pending, histLen, histPos, messages,
                   acc, nextConn, disp, reap, inputs, cfg, auxVars, faults>>

\* a regular message is accepted by the channel
ProcessChat(s) ==
    /\ pc[s] = "process"
    /\ line[s].type = "chat"
    /\ ~throttled[s]
    /\ ~Full(broadcast)
    /\ broadcast' = Enqueue(broadcast,
                        Message(nextId, name[s], "chat", name[s], s, s))
    /\ nextId' = nextId + 1
    /\ throttled' = [throttled EXCEPT ![s] = TRUE]
    /\ pc' = [pc EXCEPT ![s] = "loop"]
    /\ line' = [line EXCEPT ![s] = NoLine]
    /\ UNCHANGED <<state, name, nameHistory, connClosed, peerClosed,
                   inbox, pending, histLen, histPos,
                   clients, activeNames, messages,
                   acc, nextConn, disp, reap, inputs, cfg, auxVars, faults>>

\* the channel stayed full for a second: break mainLoop
ProcessChatTimeout(s) ==
    /\ pc[s] = "process"
    /\ line[s].type = "chat"
    /\ ~throttled[s]
    /\ Full(broadcast)
    /\ throttled' = [throttled EXCEPT ![s] = TRUE]
    /\ pc' = [pc EXCEPT ![s] = "cleanup"]
    /\ line' = [line EXCEPT ![s] = NoLine]
    /\ UNCHANGED <<state, name, nameHistory, connClosed, peerClosed,
                   inbox, pending, histLen, histPos,
                   srvVars, taskVars>>

\* deferred cleanup: disconnectClient unless the client is Disconnecting;
\* then handleConnection returns and its deferred conn.Close runs
CleanupSkip(s) ==
    /\ pc[s] = "cleanup"
    /\ state[s] = "Disconnecting"
    /\ Return(s)
    /\ UNCHANGED <<srvVars, taskVars>>

CleanupDisconnect(s) ==
    /\ pc[s] = "cleanup"
    /\ state[s] # "Disconnecting"
    /\ pc' = [pc EXCEPT ![s] = "disc1"]
    /\ UNCHANGED <<state, name, nameHistory, connClosed, peerClosed,
                   throttled, line, inbox, pending, histLen, histPos, srvVars, taskVars>>

\* ---- disconnectClient ----------------------------------------------------
\* name := c.Name(); c.SetState(Disconnecting); c.Conn.Close()
DisconnectMark(c) ==
    /\ state' = [state EXCEPT ![c] = "Disconnecting"]
    /\ connClosed' = [connClosed EXCEPT ![c] = TRUE]
    /\ pending' = [pending EXCEPT ![c] = 0]

\* delete(s.clients, name); delete(s.activeNames, name) under both locks
DisconnectRemove(n) ==
    /\ clients' = [clients EXCEPT ![n] = NoSession]
    /\ activeNames' = activeNames \ {n}

\* C37, altered select: a plain send, which waits for room on the channel
PostNoticeBlocking(kind, who, by, about) ==
    /\ ~Full(broadcast)
    /\ broadcast' = Enqueue(broadcast,
                       [SystemMessage(nextId, kind, who, by)
                           EXCEPT !.about = about])
    /\ nextId' = nextId + 1

\* the notice is posted, or dropped when the channel stays full for a second
PostNotice(kind, who, by, about) ==
    IF Full(broadcast)
    THEN UNCHANGED <<broadcast, nextId>>
    ELSE /\ broadcast' = Enqueue(broadcast,
                            [SystemMessage(nextId, kind, who, by)
                                EXCEPT !.about = about])
         /\ nextId' = nextId + 1

\* C32, altered disconnectClient: the notice is posted first, while the
\* client is still Active and registered
HandlerDisconnectPostFirst(s) ==
    /\ pc[s] = "disc1"
    /\ PostNotice("left", name[s], s, s)
    /\ pc' = [pc EXCEPT ![s] = "disc2"]
    /\ UNCHANGED <<state, name, nameHistory, connClosed, peerClosed,
                   throttled, line, inbox, pending, histLen, histPos,
                   clients, activeNames, messages,
                   acc, nextConn, disp, reap, inputs, cfg, auxVars, faults>>

HandlerDisconnectMark(s) ==
    /\ pc[s] = "disc1"
    /\ DisconnectMark(s)
    /\ pc' = [pc EXCEPT ![s] = "disc2"]
    /\ UNCHANGED <<name, nameHistory, peerClosed, throttled, line,
                   inbox, histLen, histPos, srvVars, taskVars>>

HandlerDisconnectRemove(s) ==
    /\ pc[s] = "disc2"
    /\ DisconnectRemove(name[s])
    /\ pc' = [pc EXCEPT ![s] = "disc3"]
    /\ UNCHANGED <<state, name, nameHistory, connClosed, peerClosed,
                   throttled, line, inbox, pending, histLen, histPos, broadcast, messages, taskVars>>

HandlerDisconnectPost(s) ==
    /\ pc[s] = "disc3"
    /\ PostNotice("left", name[s], s, s)
    /\ Return(s)
    /\ UNCHANGED <<clients, activeNames, messages,
                   acc, nextConn, disp, reap, inputs, cfg, auxVars, faults>>


\* ---- Dispatcher: broadcastLoop -------------------------------------------
\* msg := <-s.broadcast; s.messages = append(s.messages, msg)
DispatchRecv ==
    /\ disp.pc = "recv"
    /\ broadcast # <<>>
    /\ messages' = Append(messages, Head(broadcast))
    /\ broadcast' = Tail(broadcast)
    /\ disp' = [disp EXCEPT !.pc = "snapshot", !.msg = Head(broadcast)]
    /\ UNCHANGED <<sessVars, clients, activeNames,
                   acc, nextConn, reap, nextId, inputs, cfg, auxVars, faults>>

\* the copy of the client list made under clientsMu.RLock
DispatchSnapshot ==
    /\ disp.pc = "snapshot"
    /\ disp' = [disp EXCEPT !.pc = "send",
                            !.rcpts = Recipients(disp.msg),
                            !.todo = Recipients(disp.msg),
                            !.elig = ActiveRegistered,
                            !.failed = <<>>]
    /\ UNCHANGED <<sessVars, srvVars, acc, nextConn, reap, nextId, inputs, cfg, auxVars, faults>>

\* client.Send(msg) returned nil
DispatchSendOk(c) ==
    /\ disp.pc = "send"
    /\ c \in disp.todo
    /\ CanSend(c)
    /\ pending[c] = 0
    /\ inbox' = Deliver(inbox, c, Entry(disp.msg.id, "live"))
    /\ disp' = [disp EXCEPT !.todo = @ \ {c}]
    /\ UNCHANGED <<pc, state, name, nameHistory, connClosed, peerClosed, throttled, line, pending, histLen, histPos, srvVars, acc, nextConn, reap, nextId, inputs, cfg, auxVars, faults>>

\* client.Send(msg) returned an error
DispatchSendErr(c) ==
    /\ disp.pc = "send"
    /\ c \in disp.todo
    /\ ~CanSend(c) \/ peerClosed[c]
    /\ disp' = [disp EXCEPT !.todo = @ \ {c}, !.failed = Append(@, c)]
    /\ UNCHANGED <<sessVars, srvVars, acc, nextConn, reap, nextId, inputs, cfg, auxVars, faults>>

\* the write did not return within a second: the client is recorded as
\* failed while the write is still outstanding
DispatchSendTimeout(c) ==
    /\ faults < MaxFaults
    /\ faults' = faults + 1
    /\ disp.pc = "send"
    /\ c \in disp.todo
    /\ CanSend(c)
    /\ ~peerClosed[c]
    /\ pending' = [pending EXCEPT ![c] = IF @ = 0 THEN disp.msg.id ELSE @]
    /\ disp' = [disp EXCEPT !.todo = @ \ {c}, !.failed = Append(@, c)]
    /\ UNCHANGED <<pc, state, name, nameHistory, connClosed, peerClosed, throttled, line, inbox, histLen, histPos, srvVars, acc, nextConn, reap, nextId, inputs, cfg, auxVars>>

\* an outstanding write completes before the connection is closed
PendingLand(c) ==
    /\ pending[c] # 0
    /\ ~connClosed[c]
    /\ inbox' = Deliver(inbox, c, Entry(pending[c], "live"))
    /\ pending' = [pending EXCEPT ![c] = 0]
    /\ UNCHANGED <<pc, state, name, nameHistory, connClosed, peerClosed, throttled, line, histLen, histPos,
                   srvVars, taskVars>>

\* C6, altered broadcastLoop: the loop goes on without wg.Wait()
DispatchJoinEarly ==
    /\ disp.pc = "send"
    /\ disp' = [disp EXCEPT !.pc = IF disp.failed = <<>> THEN "recv" ELSE "disc1"]
    /\ UNCHANGED <<sessVars, srvVars, acc, nextConn, reap, nextId, inputs, cfg, auxVars, faults>>

\* C40, altered broadcastLoop: no timeout on a send, the fan-out is over
\* when every write has returned
DispatchJoinNoTimeout ==
    /\ disp.pc = "send"
    /\ disp.todo = {}
    /\ \A c \in S : pending[c] = 0
    /\ disp' = [disp EXCEPT !.pc = IF disp.failed = <<>> THEN "recv" ELSE "disc1"]
    /\ UNCHANGED <<sessVars, srvVars, acc, nextConn, reap, nextId, inputs, cfg, auxVars, faults>>

\* wg.Wait() returned: next message, or the failed clients first
DispatchJoin ==
    /\ disp.pc = "send"
    /\ disp.todo = {}
    /\ disp' = [disp EXCEPT !.pc = IF disp.failed = <<>> THEN "recv" ELSE "disc1"]
    /\ UNCHANGED <<sessVars, srvVars, acc, nextConn, reap, nextId, inputs, cfg, auxVars, faults>>

\* disconnectClient(c, "connection failure") for the first failed client
DispatchDisconnectMark ==
    /\ disp.pc = "disc1"
    /\ DisconnectMark(Head(disp.failed))
    /\ disp' = [disp EXCEPT !.pc = "disc2", !.dname = name[Head(disp.failed)]]
    /\ UNCHANGED <<pc, name, nameHistory, peerClosed, throttled,
                   line, inbox, histLen, histPos,
                   srvVars, acc, nextConn, reap, nextId, inputs, cfg, auxVars, faults>>

DispatchDisconnectRemove ==
    /\ disp.pc = "disc2"
    /\ DisconnectRemove(disp.dname)
    /\ disp' = [disp EXCEPT !.pc = "disc3"]
    /\ UNCHANGED <<sessVars, broadcast, messages,
                   acc, nextConn, reap, nextId, inputs, cfg, auxVars, faults>>

DispatchDisconnectPost ==
    /\ disp.pc = "disc3"
    /\ PostNotice("failure", disp.dname, NoSession, Head(disp.failed))
    /\ disp' = [disp EXCEPT !.failed = Tail(@),
                            !.pc = IF Tail(disp.failed) = <<>>
                                   THEN "recv" ELSE "disc1"]
    /\ UNCHANGED <<sessVars, clients, activeNames, messages,
                   acc, nextConn, reap, inputs, cfg, auxVars, faults>>

\* ---- Reaper: cleanInactiveConnections ------------------------------------
\* first pass under clientsMu: the Active clients whose activity (set by
\* client.New and never afterwards) is older than cfg.ClientTimeout leave the
\* clients map
ReapScan ==
    /\ reap.pc = "tick"
    /\ faults < MaxFaults
    /\ \E inactive \in SUBSET {n \in Registered : state[clients[n]] = "Active"} :
        /\ inactive # {}
        /\ clients' = [n \in Names |->
                          IF n \in inactive THEN NoSession ELSE clients[n]]
        /\ reap' = [reap EXCEPT !.pc = "clean",
                                !.todo = {<<n, clients[n]>> : n \in inactive}]
    /\ faults' = faults + 1
    /\ UNCHANGED <<sessVars, activeNames, broadcast, messages,
                   acc, nextConn, disp, nextId, inputs, cfg, auxVars>>

\* second pass, per client: delete(s.activeNames, name)
ReapRelease(e) ==
    /\ reap.pc = "clean"
    /\ e \in reap.todo
    /\ activeNames' = activeNames \ {e[1]}
    /\ reap' = [reap EXCEPT !.pc = "close", !.todo = @ \ {e},
                            !.curName = e[1], !.cur = e[2]]
    /\ UNCHANGED <<sessVars, clients, broadcast, messages,
                   acc, nextConn, disp, nextId, inputs, cfg, auxVars, faults>>

\* c.SetState(Disconnecting); c.Conn.Close()
ReapClose ==
    /\ reap.pc = "close"
    /\ DisconnectMark(reap.cur)
    /\ reap' = [reap EXCEPT !.pc = "post"]
    /\ UNCHANGED <<pc, name, nameHistory, peerClosed, throttled,
                   line, inbox, histLen, histPos,
                   srvVars, acc, nextConn, disp, nextId, inputs, cfg, auxVars, faults>>

ReapPost ==
    /\ reap.pc = "post"
    /\ PostNotice("timeout", reap.curName, NoSession, reap.cur)
    /\ reap' = [reap EXCEPT !.pc = IF reap.todo = {} THEN "tick" ELSE "clean",
                            !.cur = NoSession, !.curName = NoName]
    /\ UNCHANGED <<sessVars, clients, activeNames, messages,
                   acc, nextConn, disp, inputs, cfg, auxVars, faults>>

\* ---- environment ---------------------------------------------------------
\* the remote end closes the connection
PeerClose(s) ==
    /\ faults < MaxFaults
    /\ faults' = faults + 1
    /\ pc[s] = "loop"
    /\ ~peerClosed[s]
    /\ peerClosed' = [peerClosed EXCEPT ![s] = TRUE]
    /\ UNCHANGED <<pc, state, name, nameHistory, connClosed,
                   throttled, line, inbox, pending, histLen, histPos, srvVars, acc, nextConn, disp, reap, nextId, inputs, cfg, auxVars>>

\* cfg.MessageRateLimit has passed since lastMessageTime
RateWindowElapsed(s) ==
    /\ pc[s] = "process"
    /\ throttled[s]
    /\ throttled' = [throttled EXCEPT ![s] = FALSE]
    /\ UNCHANGED <<pc, state, name, nameHistory, connClosed, peerClosed, line, inbox, pending, histLen, histPos, srvVars, taskVars>>

Next ==
    \/ AcceptReject
    \/ AcceptSpawn
    \/ AcceptResume
    \/ \E s \in S : Authenticate(s)
    \/ \E s \in S : AuthFail(s)
    \/ \E s \in S : RegisterName(s)
    \/ \E s \in S : RegisterNameTaken(s)
    \/ \E s \in S : RegisterClient(s)
    \/ \E s \in S : HistorySnapshot(s)
    \/ \E s \in S : HistorySend(s)
    \/ \E s \in S : HistoryDone(s)
    \/ \E s \in S : ReadLine(s)
    \/ \E s \in S : ReadFail(s)
    \/ \E s \in S : ProcessEmpty(s)
    \/ \E s \in S : ProcessThrottled(s)
    \/ \E s \in S : ProcessOversize(s)
    \/ \E s \in S : ProcessMalformedName(s)
    \/ \E s \in S : ProcessNameRejected(s)
    \/ \E s \in S : ProcessNameChange(s)
    \/ \E s \in S : ProcessChat(s)
    \/ \E s \in S : ProcessChatTimeout(s)
    \/ \E s \in S : CleanupSkip(s)
    \/ \E s \in S : CleanupDisconnect(s)
    \/ \E s \in S : HandlerDisconnectMark(s)
    \/ \E s \in S : HandlerDisconnectRemove(s)
    \/ \E s \in S : HandlerDisconnectPost(s)
    \/ DispatchRecv
    \/ DispatchSnapshot
    \/ \E c \in S : DispatchSendOk(c)
    \/ \E c \in S : DispatchSendErr(c)
    \/ \E c \in S : DispatchSendTimeout(c)
    \/ \E c \in S : PendingLand(c)
    \/ DispatchJoin
    \/ DispatchDisconnectMark
    \/ DispatchDisconnectRemove
    \/ DispatchDisconnectPost
    \/ ReapScan
    \/ \E e \in Names \X S : ReapRelease(e)
    \/ ReapClose
    \/ ReapPost
    \/ \E s \in S : PeerClose(s)
    \/ \E s \in S : RateWindowElapsed(s)

Spec == Init /\ [][Next]_vars

\* the steps each goroutine takes on its own, as opposed to those that wait
\* for a connection, for a line from a client, or for a peer to fail
AcceptorMove == AcceptResume

DispatcherMove ==
    \/ DispatchRecv
    \/ DispatchSnapshot
    \/ \E c \in S : DispatchSendOk(c) \/ DispatchSendErr(c)
    \/ DispatchJoin
    \/ DispatchDisconnectMark
    \/ DispatchDisconnectRemove
    \/ DispatchDisconnectPost

ReaperMove ==
    \/ \E e \in Names \X S : ReapRelease(e)
    \/ ReapClose
    \/ ReapPost

HandlerMove(s) ==
    \/ RegisterName(s) \/ RegisterNameTaken(s) \/ RegisterClient(s)
    \/ HistorySnapshot(s) \/ HistorySend(s) \/ HistoryDone(s)
    \/ ReadFail(s)
    \/ ProcessEmpty(s) \/ ProcessThrottled(s) \/ ProcessOversize(s)
    \/ ProcessMalformedName(s) \/ ProcessNameRejected(s)
    \/ ProcessNameChange(s) \/ ProcessChat(s) \/ ProcessChatTimeout(s)
    \/ CleanupSkip(s) \/ CleanupDisconnect(s)
    \/ HandlerDisconnectMark(s) \/ HandlerDisconnectRemove(s)
    \/ HandlerDisconnectPost(s)

\* every goroutine keeps running while it has a step to take; nothing is
\* assumed about connections arriving, clients typing or peers failing
FairSpec ==
    /\ Spec
    /\ WF_vars(AcceptorMove)
    /\ WF_vars(DispatcherMove)
    /\ WF_vars(ReaperMove)
    /\ \A s \in S : WF_vars(HandlerMove(s))

\* ---- type correctness ----------------------------------------------------
TypeOK ==
    /\ pc \in [S -> {"idle", "rejected", "auth", "regNames", "regClients",
                     "hist", "histSend", "loop", "process", "cleanup",
                     "disc1", "disc2", "disc3", "done"}]
    /\ state \in [S -> {"Connecting", "Authenticated", "Active", "Disconnecting"}]
    /\ name \in [S -> Names \cup {NoName}]
    /\ clients \in [Names -> S \cup {NoSession}]
    /\ activeNames \subseteq Names
    /\ Len(broadcast) <= BroadcastBufferSize
    /\ inputs \in 0..MaxInputs
    /\ cfg \in [MaxClients : 1..MaxClients]
    /\ faults \in 0..MaxFaults
    /\ nextConn \in 1..(NumSessions + 1)

\* ---- vocabulary of the properties -----------------------------------------
Range(q) == {q[i] : i \in 1..Len(q)}

\* the handler of s is running (the connection was admitted and has not ended)
Live(s) == pc[s] \notin {"idle", "rejected", "done"}

\* sessions in state Authenticated or Active that hold the name n
Holders(n) ==
    {s \in S : Live(s) /\ state[s] \in {"Authenticated", "Active"} /\ name[s] = n}

\* position of the message with this id in the transcript (0: not there)
Pos(id) ==
    IF \E j \in 1..Len(messages) : messages[j].id = id
    THEN CHOOSE j \in 1..Len(messages) : messages[j].id = id
    ELSE 0

\* ids of the lines of one kind written to the connection of s
Got(s, via) == {e.id : e \in {x \in Range(inbox[s]) : x.via = via}}

\* ---- C1 -------------------------------------------------------------------
\* C1: in every reachable state no two sessions in state Authenticated or
\* Active hold the same name, and a name is in activeNames iff exactly one
\* such session holds it.
C1_NameRegistryMatchesSessions ==
    \A n \in Names :
        /\ Cardinality(Holders(n)) <= 1
        /\ n \in activeNames <=> Cardinality(Holders(n)) = 1

\* ---- C2 -------------------------------------------------------------------
\* C2: in every reachable state the keys of clients equal activeNames and
\* every session stored in clients is Authenticated or Active.
C2_RegistriesAgree ==
    /\ Registered = activeNames
    /\ \A n \in Registered : state[clients[n]] \in {"Authenticated", "Active"}

C4_FanOutSet ==
    disp.pc = "send" =>
        disp.rcpts = IF disp.msg.from = SYSTEM
                     THEN disp.elig
                     ELSE disp.elig \ {disp.msg.origin}

\* ---- C5 -------------------------------------------------------------------
\* C5: a session never receives by live fan-out a non-system message it sent
\* itself, and no other Active session is left out of a fan-out because its
\* name equals the from field of the message.
C5_NoEchoNoSkip ==
    /\ \A s \in S : \A m \in Range(messages) :
          m.origin = s => m.id \notin Got(s, "live")
    /\ disp.pc = "send" =>
          \A c \in disp.elig : c # disp.msg.origin => c \in disp.rcpts

\* ---- C6 -------------------------------------------------------------------
\* the live lines of every connection follow the order of the transcript
LiveInTranscriptOrder ==
    \A s \in S : \A i, j \in 1..Len(inbox[s]) :
        (i < j /\ inbox[s][i].via = "live" /\ inbox[s][j].via = "live")
            => (0 < Pos(inbox[s][i].id) /\ Pos(inbox[s][i].id) < Pos(inbox[s][j].id))

\* no send of the previous message is unfinished when the Dispatcher is about
\* to take or has just taken the next one
SendsFinished ==
    disp.pc \in {"recv", "snapshot"} =>
        /\ disp.todo = {}
        /\ \A c \in S : pending[c] = 0

\* the transcript changes only by the Dispatcher appending the message it
\* dequeues
AppendsDequeued ==
    \/ messages' = messages
    \/ /\ broadcast # <<>>
       /\ messages' = Append(messages, Head(broadcast))
       /\ broadcast' = Tail(broadcast)

\* C6: the transcript is append-only in dequeue order, the Dispatcher does not
\* start the next fan-out before every send of the current one has finished,
\* and every recipient receives its live messages in transcript order.
C6_TranscriptOrder ==
    /\ [][AppendsDequeued]_vars
    /\ [](SendsFinished /\ LiveInTranscriptOrder)

\* C6, its case: the Dispatcher has taken a third message after two fan-outs
\* reached the same connection
C6_Witness ==
    /\ Len(messages) >= 3
    /\ \E s \in S : Cardinality(Got(s, "live")) >= 2

C8_HistoryFirst ==
    \A s \in S : \A i, j \in 1..Len(inbox[s]) :
        i < j => ~(inbox[s][i].via = "live" /\ inbox[s][j].via = "hist")

\* ---- C9 -------------------------------------------------------------------
\* C9: no message is delivered twice to a newly admitted session: a message
\* of its history snapshot is never also sent to it by live fan-out.
C9_NoDuplicate ==
    \A s \in S : Got(s, "hist") \cap Got(s, "live") = {}

\* ---- C10 ------------------------------------------------------------------
\* C10: after every successful registration of a session a SYSTEM message
\* "<name> has joined our chat..." has been posted to the broadcast channel.
C10_JoinPosted ==
    \A s \in S :
        pc[s] \in {"loop", "process"} =>
            \E m \in Range(messages) \cup Range(broadcast) \cup {disp.msg} :
                m.kind = "joined" /\ m.by = s

\* ---- C11 ------------------------------------------------------------------
\* the order of protocol.ConnectionState
StateRank(st) ==
    CASE st = "Connecting" -> 0
      [] st = "Authenticated" -> 1
      [] st = "Active" -> 2
      [] st = "Disconnecting" -> 3

\* C11: every write of a session's state moves it one step forward along
\* Connecting -> Authenticated -> Active -> Disconnecting: no state is
\* skipped and none is gone back to.
C11_StateAdvances ==
    [][\A s \in S :
          state'[s] # state[s] => StateRank(state'[s]) = StateRank(state[s]) + 1]_vars

\* ---- C18 ------------------------------------------------------------------
\* the notices posted to the channel that report the end of session s
Farewells(s) ==
    {m \in Range(messages) \cup Range(broadcast) :
        m.kind \in {"left", "failure", "timeout"} /\ m.about = s}

\* C18: termination runs once per session, whichever triggers occur: at most
\* one farewell notice for it is ever posted.
C18_TerminatesOnce ==
    \A s \in S : Cardinality(Farewells(s)) <= 1

\* ---- Client.Close ---------------------------------------------------------
mainVars == <<sessVars, srvVars, acc, nextConn, disp, reap, nextId, inputs,
              cfg, faults>>

\* c.mu.Lock()
CloseLock(k) ==
    /\ cl.pc[k] = "idle"
    /\ cl.calls[k] < MaxCloseCalls
    /\ cl.mu = 0
    /\ cl' = [cl EXCEPT !.mu = k, !.pc[k] = "check", !.calls[k] = @ + 1]
    /\ UNCHANGED <<mainVars, life, rl, nm, lg, vu, lk>>

\* altered Close: the closed flag is not looked at
CloseCheckNoFlag(k) ==
    /\ cl.pc[k] = "check"
    /\ cl' = [cl EXCEPT !.closed = TRUE, !.pc[k] = "fire"]
    /\ UNCHANGED <<mainVars, life, rl, nm, lg, vu, lk>>

\* if c.closed { return nil }; c.closed = true
CloseCheck(k) ==
    /\ cl.pc[k] = "check"
    /\ cl' = IF cl.closed
             THEN [cl EXCEPT !.pc[k] = "unlock", !.rets = Append(@, "nil")]
             ELSE [cl EXCEPT !.closed = TRUE, !.pc[k] = "fire"]
    /\ UNCHANGED <<mainVars, life, rl, nm, lg, vu, lk>>

\* close(c.done)
CloseFire(k) ==
    /\ cl.pc[k] = "fire"
    /\ cl' = [cl EXCEPT !.fired = @ + 1, !.pc[k] = "conn"]
    /\ UNCHANGED <<mainVars, life, rl, nm, lg, vu, lk>>

\* return c.Conn.Close(): an error when the connection is closed already
CloseConn(k) ==
    /\ cl.pc[k] = "conn"
    /\ cl' = [cl EXCEPT !.connCloses = @ + 1, !.connOpen = FALSE,
                        !.pc[k] = "unlock",
                        !.rets = Append(@, IF cl.connOpen THEN "nil" ELSE "err")]
    /\ UNCHANGED <<mainVars, life, rl, nm, lg, vu, lk>>

\* the deferred c.mu.Unlock()
CloseUnlock(k) ==
    /\ cl.pc[k] = "unlock"
    /\ cl' = [cl EXCEPT !.mu = 0, !.pc[k] = "idle"]
    /\ UNCHANGED <<mainVars, life, rl, nm, lg, vu, lk>>

\* the server closes the connection itself: c.Conn.Close() in disconnectClient
ConnCloseDirect ==
    /\ cl.connOpen
    /\ cl' = [cl EXCEPT !.connOpen = FALSE]
    /\ UNCHANGED <<mainVars, life, rl, nm, lg, vu, lk>>

NextClose ==
    \/ \E k \in Closers : CloseLock(k)
    \/ \E k \in Closers : CloseCheck(k)
    \/ \E k \in Closers : CloseFire(k)
    \/ \E k \in Closers : CloseConn(k)
    \/ \E k \in Closers : CloseUnlock(k)
    \/ ConnCloseDirect

SpecClose == Init /\ [][NextClose]_vars

\* ---- C19 ------------------------------------------------------------------
\* C19: Close is idempotent: the first call closes the connection and fires
\* done; every later call, also one that races with the first, returns nil,
\* does not close the connection again and does not fire done again.
C19_CloseIdempotent ==
    /\ cl.fired <= 1
    /\ cl.connCloses <= 1
    /\ cl.rets # <<>> => (cl.closed /\ cl.fired = 1 /\ cl.connCloses = 1)
    /\ \A i \in 2..Len(cl.rets) : cl.rets[i] = "nil"

\* C19, its case: three calls of Close have returned, two tasks among the
\* callers
C19_Witness ==
    /\ Len(cl.rets) >= 3
    /\ Cardinality({k \in Closers : cl.calls[k] > 0}) >= 2

\* ---- rate and size limits of handleClientMessages -------------------------
\* altered check: a line arriving exactly one limit after the last is refused
RateLimitedInclusive(now, last, limit) == now - last <= limit

\* now.Sub(lastMessageTime) < s.cfg.MessageRateLimit
RateLimited(now, last, limit) == now - last < limit

\* altered check: a line of exactly MaxMessageSize is refused
TooLongInclusive(len, max) == len >= max

\* len(message) > s.cfg.MaxMessageSize
TooLong(len, max) == len > max

\* now.Sub(c.LastActivity()) > s.cfg.ClientTimeout
Inactive(now, activity, timeout) == now - activity > timeout

\* client.New sets activity, handleClientMessages starts:
\* lastMessageTime := time.Now().Add(-limit)
InitRate ==
    /\ InitServer
    /\ acc = AcceptorStarted
    /\ disp = DispatcherStarted
    /\ reap = ReaperStarted
    /\ life = LifeStarted
    /\ cl = ClientNew
    /\ \E l \in 1..MaxRateLimit : \E m \in 1..MaxMessageSize :
       \E c \in 1..MaxClientTimeout :
          rl = [ClockOff EXCEPT !.last = 0 - l, !.limit = l, !.maxSize = m,
                                !.timeout = c]
    /\ nm = NamesOff
    /\ lg = SinkOff
    /\ vu = ValidateOff
    /\ lk = LocksOff

\* time passes
RateTick ==
    /\ rl.now < MaxTime
    /\ rl' = [rl EXCEPT !.now = @ + 1]
    /\ UNCHANGED <<mainVars, life, cl, nm, lg, vu, lk>>

\* what the loop does with a non-empty line of this kind read at rl.now
LineOutcome(kind, big) ==
    IF RateLimited(rl.now, rl.last, rl.limit) THEN "wait"
    ELSE IF big THEN "long"
    ELSE IF kind = "name" THEN "command"
    ELSE "sent"

\* a non-empty line of len characters is read and goes through the checks;
\* ok: c.Send of an error line succeeds (a failed one breaks mainLoop).  The
\* Dispatcher keeps the channel drained in these runs, so the send of a chat
\* line takes its first case.
RateLine(kind, len, ok) ==
    /\ Len(rl.log) < MaxLines
    /\ ~rl.ended
    /\ LET big == TooLong(len, rl.maxSize)
           out == LineOutcome(kind, big)
           brk == out \in {"wait", "long"} /\ ~ok
           last == IF out \in {"sent", "command"} THEN rl.now ELSE rl.last
       IN rl' = [rl EXCEPT
                   !.last = last,
                   !.sent = IF out = "sent" THEN @ + 1 ELSE @,
                   !.ended = brk,
                   !.log = Append(@, [t |-> rl.now, kind |-> kind, len |-> len,
                                      big |-> big, ok |-> ok, out |-> out,
                                      brk |-> brk, last |-> last])]
    /\ UNCHANGED <<mainVars, life, cl, nm, lg, vu, lk>>

\* a tick of cleanInactiveConnections that finds the client inactive: it is
\* removed and its connection closed
RateReap ==
    /\ ~rl.evicted
    /\ Inactive(rl.now, rl.activity, rl.timeout)
    /\ rl' = [rl EXCEPT !.evicted = TRUE, !.evictedAt = rl.now, !.ended = TRUE]
    /\ UNCHANGED <<mainVars, life, cl, nm, lg, vu, lk>>

NextRate ==
    \/ RateTick
    \/ \E kind \in {"chat", "name"} : \E len \in 1..(MaxMessageSize + 1) :
       \E ok \in BOOLEAN : RateLine(kind, len, ok)
    \/ RateReap

SpecRate == InitRate /\ [][NextRate]_vars

\* ---- C20 ------------------------------------------------------------------
\* the lines of the log that passed both checks
Admitted == {i \in 1..Len(rl.log) : rl.log[i].out \in {"sent", "command"}}

\* time of the admitted line before line i (the handler's start minus the
\* limit when there is none)
PrevAdmitted(i) ==
    LET earlier == {j \in Admitted : j < i}
    IN IF earlier = {} THEN 0 - rl.limit
       ELSE rl.log[CHOOSE j \in earlier : \A k \in earlier : k <= j].t

AcceptorOff == [pc |-> "off", cur |-> NoSession]

DispatcherOff == [DispatcherStarted EXCEPT !.pc = "off"]

ReaperOff == [ReaperStarted EXCEPT !.pc = "off"]

\* acceptLoop at the top of its loop, about to take lnMu
AcceptorSpawned == [pc |-> "wait", cur |-> NoSession]

InitLife ==
    /\ InitServer
    /\ acc = AcceptorOff
    /\ disp = DispatcherOff
    /\ reap = ReaperOff
    /\ life = LifeNew
    /\ cl = ClientNew
    /\ rl = ClockOff
    /\ nm = NamesOff
    /\ lg = SinkOff
    /\ vu = ValidateOff
    /\ lk = LocksOff

lifeFrame == <<nextConn, nextId, inputs, cfg, faults, cl, rl, nm, lg, vu, lk>>

StartUnderWay == \E j \in StartCalls : life.start[j].pc \in {"lock", "check", "listen"}

\* Start is called and reaches s.lnMu.Lock()
StartCall(j) ==
    /\ life.start[j].pc = "idle"
    /\ ~life.crashed
    /\ ~life.doneNil
    /\ life' = [life EXCEPT !.start[j].pc = "lock"]
    /\ UNCHANGED <<sessVars, srvVars, acc, disp, reap, lifeFrame>>

\* s.lnMu.Lock() succeeds
StartLock(j) ==
    /\ life.start[j].pc = "lock"
    /\ life.lnMu = "free"
    /\ life' = [life EXCEPT !.start[j].pc = "check", !.lnMu = "start"]
    /\ UNCHANGED <<sessVars, srvVars, acc, disp, reap, lifeFrame>>

\* the doneMu section: on a running server Start returns the error, and
\* lnMu stays locked
StartCheck(j) ==
    /\ life.start[j].pc = "check"
    /\ IF life.isRunning
       THEN life' = [life EXCEPT !.start[j] =
                        [pc |-> "done", ret |-> "server is already running"]]
       ELSE life' = [life EXCEPT !.start[j].pc = "listen",
                                 !.isRunning = TRUE,
                                 !.doneNil = FALSE,
                                 !.done = IF life.doneNil THEN "open" ELSE @]
    /\ UNCHANGED <<sessVars, srvVars, acc, disp, reap, lifeFrame>>

\* net.Listen succeeds: lnMu is released and the three goroutines start
StartListen(j) ==
    /\ life.start[j].pc = "listen"
    /\ life' = [life EXCEPT !.start[j] = [pc |-> "done", ret |-> "nil"],
                            !.ln = "open", !.lnMu = "free",
                            !.reapDone = "ch"]
    /\ acc' = AcceptorSpawned
    /\ disp' = DispatcherStarted
    /\ reap' = ReaperStarted
    /\ UNCHANGED <<sessVars, srvVars, lifeFrame>>

\* net.Listen fails: isRunning is reset and the error returned, lnMu stays
\* locked
StartListenFail(j) ==
    /\ life.start[j].pc = "listen"
    /\ life' = [life EXCEPT !.start[j] = [pc |-> "done", ret |-> "failed to listen"],
                            !.isRunning = FALSE]
    /\ UNCHANGED <<sessVars, srvVars, acc, disp, reap, lifeFrame>>

\* the sessions Stop is to say goodbye to
ActiveAtStop == ActiveRegistered

\* altered Stop: the isRunning test is missing
StopCheckAlways(k) ==
    /\ life.stop[k].pc = "idle"
    /\ ~life.crashed
    /\ ~StartUnderWay
    /\ life' = [life EXCEPT !.stop[k].pc = "lnMu",
                            !.stop[k].noop = ~life.isRunning,
                            !.isRunning = FALSE,
                            !.done = IF life.doneNil THEN @ ELSE "closed",
                            !.doneNil = TRUE,
                            !.atStop = ActiveAtStop]
    /\ UNCHANGED <<sessVars, srvVars, acc, disp, reap, lifeFrame>>

\* Stop is called; its doneMu section: a server that is not running is left
\* alone, otherwise isRunning is reset, done closed and s.done set to nil
StopCheck(k) ==
    /\ life.stop[k].pc = "idle"
    /\ ~life.crashed
    /\ ~StartUnderWay
    /\ IF ~life.isRunning
       THEN life' = [life EXCEPT !.stop[k] =
                        [pc |-> "done", noop |-> TRUE, ret |-> "nil"]]
       ELSE life' = [life EXCEPT !.stop[k].pc = "lnMu",
                                 !.isRunning = FALSE,
                                 !.done = IF life.doneNil THEN @ ELSE "closed",
                                 !.doneNil = TRUE,
                                 !.atStop = ActiveAtStop]
    /\ UNCHANGED <<sessVars, srvVars, acc, disp, reap, lifeFrame>>

\* the lnMu section: the listener is closed and s.ln set to nil
StopListener(k) ==
    /\ life.stop[k].pc = "lnMu"
    /\ life.lnMu = "free"
    /\ life' = [life EXCEPT !.stop[k].pc = "snapshot", !.ln = "nil"]
    /\ UNCHANGED <<sessVars, srvVars, acc, disp, reap, lifeFrame>>

\* the copy of s.clients under clientsMu.RLock, one goroutine per client
StopSnapshot(k) ==
    /\ life.stop[k].pc = "snapshot"
    /\ LET snap == {clients[n] : n \in Registered}
       IN life' = [life EXCEPT
                     !.stop[k].pc = "wait",
                     !.snap = snap,
                     !.g = [s \in S |-> IF s \in snap THEN "mark" ELSE "none"]]
    /\ UNCHANGED <<sessVars, srvVars, acc, disp, reap, lifeFrame>>

\* client.SetState(protocol.StateDisconnecting)
StopMark(s) ==
    /\ life.g[s] = "mark"
    /\ state' = [state EXCEPT ![s] = "Disconnecting"]
    /\ life' = [life EXCEPT !.g[s] = "send"]
    /\ UNCHANGED <<pc, name, nameHistory, connClosed, peerClosed, throttled,
                   line, inbox, pending, histLen, histPos,
                   srvVars, acc, disp, reap, lifeFrame>>

\* client.Send("Server shutting down..."), its error ignored
StopFarewell(s) ==
    /\ life.g[s] = "send"
    /\ life' = [life EXCEPT !.g[s] = "close",
                            !.farewell[s] = IF CanSend(s) THEN @ + 1 ELSE @]
    /\ UNCHANGED <<sessVars, srvVars, acc, disp, reap, lifeFrame>>

\* client.Conn.Close()
StopConnClose(s) ==
    /\ life.g[s] = "close"
    /\ connClosed' = [connClosed EXCEPT ![s] = TRUE]
    /\ life' = [life EXCEPT !.g[s] = "done"]
    /\ UNCHANGED <<pc, state, name, nameHistory, peerClosed, throttled,
                   line, inbox, pending, histLen, histPos,
                   srvVars, acc, disp, reap, lifeFrame>>

\* wg.Wait() returned: both maps are replaced by empty ones, Stop returns nil
StopClear(k) ==
    /\ life.stop[k].pc = "wait"
    /\ \A s \in life.snap : life.g[s] = "done"
    /\ clients' = [n \in Names |-> NoSession]
    /\ activeNames' = {}
    /\ life' = [life EXCEPT !.stop[k].pc = "done", !.stop[k].ret = "nil"]
    /\ UNCHANGED <<sessVars, broadcast, messages, acc, disp, reap, lifeFrame>>

\* ---- the tasks and the done channel --------------------------------------
\* the handler goroutine of s is running
HandlerRunning(s) ==
    pc[s] \in {"loop", "process", "cleanup", "disc1", "disc2", "disc3"}

\* handleConnection, last select: the done it read at its start is closed
ConnShutMark(s) ==
    /\ HandlerRunning(s)
    /\ life.hc[s] = "none"
    /\ life.cap[s] = "ch"
    /\ life.done = "closed"
    /\ state' = [state EXCEPT ![s] = "Disconnecting"]
    /\ life' = [life EXCEPT !.hc[s] = "send"]
    /\ UNCHANGED <<pc, name, nameHistory, connClosed, peerClosed, throttled,
                   line, inbox, pending, histLen, histPos,
                   srvVars, acc, disp, reap, lifeFrame>>

ConnShutFarewell(s) ==
    /\ life.hc[s] = "send"
    /\ life' = [life EXCEPT !.hc[s] = "close",
                            !.farewell[s] = IF CanSend(s) THEN @ + 1 ELSE @]
    /\ UNCHANGED <<sessVars, srvVars, acc, disp, reap, lifeFrame>>

\* conn.Close(), and handleConnection returns
ConnShutClose(s) ==
    /\ life.hc[s] = "close"
    /\ connClosed' = [connClosed EXCEPT ![s] = TRUE]
    /\ life' = [life EXCEPT !.hc[s] = "returned"]
    /\ UNCHANGED <<pc, state, name, nameHistory, peerClosed, throttled,
                   line, inbox, pending, histLen, histPos,
                   srvVars, acc, disp, reap, lifeFrame>>

\* handleClientMessages, case <-s.done (read without doneMu): return
HandlerSeesDone(s) ==
    /\ pc[s] = "loop"
    /\ life.done = "closed"
    /\ pc' = [pc EXCEPT ![s] = "cleanup"]
    /\ UNCHANGED <<state, name, nameHistory, connClosed, peerClosed, throttled,
                   line, inbox, pending, histLen, histPos,
                   srvVars, taskVars>>

\* acceptLoop takes lnMu and calls Accept on the nil s.ln: the panic ends
\* the process and with it every goroutine and every call under way
AcceptPanic ==
    /\ AcceptorAtTop
    /\ life.lnMu = "free"
    /\ life.ln = "nil"
    /\ acc' = [acc EXCEPT !.pc = "panic"]
    /\ disp' = [disp EXCEPT !.pc = "dead"]
    /\ reap' = [reap EXCEPT !.pc = "dead"]
    /\ pc' = [s \in S |-> "dead"]
    /\ life' = [life EXCEPT
                  !.lnMu = "acceptor", !.crashed = TRUE,
                  !.hc = [s \in S |-> "dead"],
                  !.g = [s \in S |-> "dead"],
                  !.stop = [k \in StopCalls |-> [life.stop[k] EXCEPT !.pc =
                              IF @ \in {"idle", "done"} THEN @ ELSE "dead"]],
                  !.start = [j \in StartCalls |-> [life.start[j] EXCEPT !.pc =
                              IF @ \in {"idle", "done"} THEN @ ELSE "dead"]]]
    /\ UNCHANGED <<state, name, nameHistory, connClosed, peerClosed, throttled,
                   line, inbox, pending, histLen, histPos, srvVars, lifeFrame>>

\* broadcastLoop finds s.done nil, or its select takes the closed done
DispatchDone ==
    /\ disp.pc = "recv"
    /\ life.done = "closed"
    /\ disp' = [disp EXCEPT !.pc = "stopped"]
    /\ UNCHANGED <<sessVars, srvVars, acc, reap, life, lifeFrame>>

\* cleanInactiveConnections, a tick with nobody inactive: the select is
\* entered again and s.done read again
ReapIdleTick ==
    /\ reap.pc = "tick"
    /\ life' = [life EXCEPT !.reapDone = IF life.doneNil THEN "nil" ELSE "ch"]
    /\ UNCHANGED <<sessVars, srvVars, acc, disp, reap, lifeFrame>>

\* cleanInactiveConnections, case <-s.done on the channel it read
ReapDone ==
    /\ reap.pc = "tick"
    /\ life.reapDone = "ch"
    /\ life.done = "closed"
    /\ reap' = [reap EXCEPT !.pc = "stopped"]
    /\ UNCHANGED <<sessVars, srvVars, acc, disp, life, lifeFrame>>

\* steps of the server's own tasks and of the calls under way, task by task
AcceptorStep == AcceptResume \/ AcceptPanic

DispatcherStep == DispatchDone

ReaperStep == ReapIdleTick \/ ReapDone

StartStep(j) == StartLock(j) \/ StartCheck(j) \/ StartListen(j)

StopStep(k) == StopListener(k) \/ StopSnapshot(k) \/ StopClear(k)

StopClientStep(s) == StopMark(s) \/ StopFarewell(s) \/ StopConnClose(s)

ConnStep(s) ==
    \/ RegisterName(s) \/ RegisterNameTaken(s) \/ RegisterClient(s)
    \/ HistorySnapshot(s) \/ HistoryDone(s)
    \/ ConnShutMark(s) \/ ConnShutFarewell(s) \/ ConnShutClose(s)

HandlerStep(s) ==
    \/ ReadFail(s)
    \/ CleanupSkip(s) \/ CleanupDisconnect(s)
    \/ HandlerDisconnectMark(s) \/ HandlerDisconnectRemove(s)
    \/ HandlerDisconnectPost(s)

ServerStep ==
    \/ AcceptorStep
    \/ DispatcherStep
    \/ ReaperStep
    \/ \E j \in StartCalls : StartStep(j)
    \/ \E k \in StopCalls : StopStep(k)
    \/ \E s \in S : StopClientStep(s) \/ ConnStep(s) \/ HandlerStep(s)

\* what the outside does: calls of Start and Stop, connections arriving,
\* names typed, a listen address in use, and the outcome of the unsynchronised
\* read of s.done in handleClientMessages
OutsideStep ==
    \/ \E j \in StartCalls : StartCall(j) \/ StartListenFail(j)
    \/ \E k \in StopCalls : StopCheck(k)
    \/ AcceptReject
    \/ AcceptSpawn
    \/ \E s \in S : Authenticate(s) \/ AuthFail(s) \/ HandlerSeesDone(s)

NextLife == ServerStep \/ OutsideStep

SpecLife == InitLife /\ [][NextLife]_vars

\* every goroutine and every call keeps running while it has a step to
\* take; nothing is assumed about the outside
FairSpecLife ==
    /\ SpecLife
    /\ WF_vars(AcceptorStep)
    /\ WF_vars(DispatcherStep)
    /\ WF_vars(ReaperStep)
    /\ \A j \in StartCalls : WF_vars(StartStep(j))
    /\ \A k \in StopCalls : WF_vars(StopStep(k))
    /\ \A s \in S : WF_vars(StopClientStep(s))
    /\ \A s \in S : WF_vars(ConnStep(s))
    /\ \A s \in S : WF_vars(HandlerStep(s))

\* ---- C12 .. C17 -----------------------------------------------------------
\* a call of Stop that shut the server down has returned
StopReturned == \E k \in StopCalls : life.stop[k].pc = "done" /\ ~life.stop[k].noop

\* C12: every call of Stop on a running server eventually returns, whatever
\* the acceptor, the sessions, the Dispatcher and the Reaper are doing.
C12_StopReturns ==
    \A k \in StopCalls :
        (life.stop[k].pc \in {"lnMu", "snapshot", "wait"})
            ~> (life.stop[k].pc = "done" \/ life.crashed)

\* C13: once Stop has returned, clients and activeNames are empty and stay
\* empty.
C13_EmptyAfterStop ==
    StopReturned => (Registered = {} /\ activeNames = {})

\* the goroutines of the server and the handlers of all accepted connections
\* have ended
AllTerminated ==
    /\ acc.pc \in {"off", "stopped"}
    /\ disp.pc \in {"off", "stopped"}
    /\ reap.pc \in {"off", "stopped"}
    /\ \A s \in S : pc[s] \in {"idle", "rejected", "done"}

\* C14: after Stop has been called on a running server, the acceptor, the
\* Dispatcher, the Reaper and every handler eventually terminate.
C14_TasksTerminate ==
    (life.done = "closed") ~> (AllTerminated \/ life.crashed)

\* C15: every session that was Active when Stop began is sent exactly one
\* farewell line, and its connection is closed, by the time Stop returns.
C15_OneFarewell ==
    \A s \in life.atStop :
        /\ life.farewell[s] <= 1
        /\ StopReturned => (life.farewell[s] = 1 /\ connClosed[s])

\* what Stop may change of the server
ServerState ==
    <<life.isRunning, life.done, life.doneNil, life.ln, life.lnMu,
      clients, activeNames, state, connClosed, broadcast, messages,
      acc, disp, reap>>

\* C16: a call of Stop on a server that is not running (stopped before, or
\* never started) returns nil at once and changes nothing, so at most one
\* call ever shuts the server down.
C16_StopIdempotent ==
    /\ [][\A k \in StopCalls :
            (life.stop[k].pc = "idle" /\ life.stop'[k].pc # "idle"
                /\ ~life.isRunning)
            => /\ life.stop'[k] = [pc |-> "done", noop |-> TRUE, ret |-> "nil"]
               /\ ServerState' = ServerState]_vars
    /\ [](Cardinality({k \in StopCalls :
             life.stop[k].pc \in {"lnMu", "snapshot", "wait", "done"}
                /\ ~life.stop[k].noop}) <= 1)

\* C16, its case: one call shut the server down and returned, and another
\* call made after the shutdown returned nil
C16_Witness ==
    \E k1, k2 \in StopCalls :
        /\ life.stop[k1].pc = "done" /\ ~life.stop[k1].noop
        /\ life.stop[k2].pc = "done" /\ life.stop[k2].noop
        /\ life.stop[k2].ret = "nil"
        /\ life.ln = "nil"

\* C17: a call of Start on a running server returns the "already running"
\* error: it does not block.
C17_StartFails ==
    \A j \in StartCalls :
        (life.start[j].pc = "lock" /\ life.isRunning)
            ~> (life.start[j].ret = "server is already running" \/ life.crashed)

\* ---- C24 ------------------------------------------------------------------
\* C24: when registerClient finds the offered name in activeNames, the
\* registration fails, the connection is closed, clients and activeNames are
\* as before and nothing is posted.
C24_NameCollision ==
    [][\A s \in S :
          (pc[s] = "regNames" /\ name[s] \in activeNames /\ pc'[s] # pc[s])
          => /\ pc'[s] = "done"
             /\ connClosed'[s]
             /\ clients' = clients
             /\ activeNames' = activeNames
             /\ broadcast' = broadcast
             /\ messages' = messages
             /\ nextId' = nextId]_vars

\* C24, its case: a connection was turned away for offering the name another
\* session is registered under
C24_Witness ==
    \E s, u \in S :
        /\ s # u
        /\ pc[s] = "done" /\ state[s] = "Active"
        /\ name[s] \in activeNames
        /\ clients[name[s]] = u

\* ---- C23 ------------------------------------------------------------------
\* the sessions that have an entry in clients
InClients == {clients[n] : n \in Registered}

\* C23: a successful name change of s from old to new is one step in which
\* old leaves clients and activeNames, new enters both mapped to s, old is
\* appended to nameHistory and the name of s becomes new; the number of
\* entries of clients is unchanged, new was not another session's entry and
\* no other session loses its entry.
C23_NameChangeAtomic ==
    [][\A s \in S :
          (pc[s] = "process" /\ name'[s] # name[s])
          => LET old == name[s]
                 new == name'[s]
             IN /\ old \notin activeNames' /\ clients'[old] = NoSession
                /\ new \in activeNames' /\ clients'[new] = s
                /\ nameHistory'[s] = Append(nameHistory[s], old)
                /\ Cardinality(Registered') = Cardinality(Registered)
                /\ clients[new] = NoSession
                /\ InClients \ {s} \subseteq InClients']_vars

\* ---- C25 ------------------------------------------------------------------
\* the line the handler of s is processing is one the loop rejects
Rejected(s) ==
    /\ pc[s] = "process"
    /\ line[s].type # "empty"
    /\ \/ throttled[s]
       \/ line[s].type \in {"big", "malformed"}
       \/ /\ line[s].type = "name"
          /\ \/ ~CanChangeName(s)
             \/ ~ValidateUsername(line[s].arg)
             \/ line[s].arg \in activeNames

C28_FailedRecipientOnly ==
    /\ [][(disp.pc = "disc2" /\ disp'.pc = "disc3")
            => LET c == Head(disp.failed)
               IN /\ c \notin InClients'
                  /\ name[c] \notin activeNames'
                  /\ \A n \in Names :
                        clients'[n] # clients[n] => clients[n] = c
                  /\ \A n \in activeNames \ activeNames' : name[c] = n]_vars
    /\ [](disp.pc \in {"disc1", "disc2", "disc3"}
            => /\ disp.todo = {}
               /\ \A c \in disp.rcpts :
                    \/ \E i \in 1..Len(disp.failed) : disp.failed[i] = c
                    \/ disp.msg.id \in Got(c, "live")
                    \/ ~Live(c))

\* ---- C26 ------------------------------------------------------------------
\* C26: when the Reaper is done with a session it found inactive, the
\* session's connection is closed, the session has no entry in clients, its
\* name is not in activeNames, and the notice "<name> has timeout" about it
\* has been put on the channel.
C26_TimeoutEviction ==
    [][(reap.pc = "post" /\ reap'.pc # "post")
         => LET c == reap.cur
            IN /\ connClosed'[c]
               /\ c \notin InClients'
               /\ name'[c] \notin activeNames'
               /\ \E m \in Range(broadcast') :
                     m.kind = "timeout" /\ m.about = c]_vars

\* ---- C21 ------------------------------------------------------------------
\* lastMessageTime before line i was read
LastBefore(i) == IF i = 1 THEN 0 - rl.limit ELSE rl.log[i - 1].last

\* C21: of the lines that pass the rate check, one of exactly MaxMessageSize
\* characters (or fewer) is admitted and one of MaxMessageSize + 1 (or more)
\* is not; the oversized line leaves lastMessageTime alone and the loop goes
\* on when the error line could be written.
C21_SizeLimit ==
    \A i \in 1..Len(rl.log) :
        LET e == rl.log[i]
        IN e.out # "wait"
           => /\ e.len <= rl.maxSize => e.out \in {"sent", "command"}
              /\ e.len >= rl.maxSize + 1
                    => /\ e.out = "long"
                       /\ e.last = LastBefore(i)
                       /\ e.ok => ~e.brk

\* C21, its case: a line of MaxMessageSize + 1 characters was refused and the
\* very next line, of exactly MaxMessageSize characters and read before a
\* rate limit had passed since the refused one, went onto the channel
C21_Witness ==
    \E i \in 1..(Len(rl.log) - 1) :
        /\ rl.log[i].len = rl.maxSize + 1 /\ rl.log[i].out = "long"
        /\ rl.log[i + 1].len = rl.maxSize /\ rl.log[i + 1].out = "sent"
        /\ rl.log[i + 1].t - rl.log[i].t < rl.limit

\* ---- C27 ------------------------------------------------------------------
\* C27: the Reaper evicts a client only when its most recent line placed on
\* the channel is more than ClientTimeout old.
C27_EvictedOnlyIfIdle ==
    rl.evicted
    => \A i \in 1..Len(rl.log) :
          rl.log[i].out = "sent" => rl.evictedAt - rl.log[i].t > rl.timeout

\* ---- Names, character by character ----------------------------------------
\* One client authenticates and then sends /name lines and chat lines that
\* passed the rate and size checks.  A name is the sequence of its
\* characters; another client is registered as "b" throughout.

MaxNameChangesCfg == 3  \* largest cfg.MaxNameChanges tried (3 by default)
MaxNameLength == 6      \* cfg.MaxNameLength in these runs (32 by default)
MaxNameLines == 4       \* /name lines one client sends
MaxChatLines == 1       \* chat lines one client sends

\* the From of protocol.SystemMessage
SystemName == <<"S", "Y", "S", "T", "E", "M">>

\* the characters the range test of ValidateUsername lets through, among
\* those that occur in these runs
NameChars == {"a", "b", "c", "1", "_", " ", "E", "M", "S", "T", "Y"}

\* strings.ContainsAny(newName, "/\\:*?\"<>|")
ForbiddenChars == {"/", "\\", ":", "*", "?", "\"", "<", ">", "|"}

\* the prefix of a command line
NameCommand == <<"/", "n", "a", "m", "e">>

RECURSIVE TrimLeft(_)
TrimLeft(s) == IF s # <<>> /\ Head(s) = " " THEN TrimLeft(Tail(s)) ELSE s

RECURSIVE TrimRight(_)
TrimRight(s) ==
    IF s # <<>> /\ s[Len(s)] = " " THEN TrimRight(SubSeq(s, 1, Len(s) - 1))
    ELSE s

\* strings.TrimSpace
TrimSpace(s) == TrimRight(TrimLeft(s))

\* the first field of a string that does not start with a space
FirstField(s) ==
    LET stops == {i \in 1..Len(s) : s[i] = " "}
    IN IF stops = {} THEN s
       ELSE SubSeq(s, 1, (CHOOSE i \in stops : \A j \in stops : i <= j) - 1)

\* strings.Fields
RECURSIVE Fields(_)
Fields(s) ==
    LET r == TrimLeft(s)
    IN IF r = <<>> THEN <<>>
       ELSE <<FirstField(r)>>
            \o Fields(SubSeq(r, Len(FirstField(r)) + 1, Len(r)))

\* client.ValidateUsername: "" for nil, otherwise which check failed
ValidateUsernameText(n, maxLength) ==
    LET trimmed == TrimSpace(n)
    IN IF Len(trimmed) = 0 THEN "empty"
       ELSE IF trimmed # n THEN "spaces"
       ELSE IF Len(n) > maxLength THEN "long"
       ELSE IF \E i \in 1..Len(n) : n[i] \notin NameChars THEN "chars"
       ELSE ""

\* Client.CanChangeName: the configured limit is not looked at
CanChangeNameOf(history, configured) == Len(history) < maxNameChanges

\* Client.ChangeName
ChangeName(client, n) ==
    [client EXCEPT !.nameHistory = IF client.name # <<>>
                                   THEN Append(@, client.name) ELSE @,
                   !.name = n]

\* what a line starting with /name comes to: the format and character checks
\* of handleClientMessages, then handleNameChange
NameOutcome(message) ==
    LET parts == Fields(message)
        newName == IF Len(parts) >= 2 THEN TrimSpace(parts[2]) ELSE <<>>
    IN IF Len(parts) # 2 \/ newName = <<>> THEN "format"
       ELSE IF \E i \in 1..Len(newName) : newName[i] \in ForbiddenChars
            THEN "forbidden"
       ELSE IF ~CanChangeNameOf(nm.nameHistory, nm.maxChanges) THEN "max"
       ELSE IF ValidateUsernameText(newName, nm.maxLength) # "" THEN "invalid"
       ELSE IF newName \in nm.activeNames THEN "taken"
       ELSE "ok"

\* the lines clients type at the name prompt
AuthLines ==
    {<<>>, <<" ", "a", " ">>, <<"a", "!">>, <<"b">>, <<"a", " ", "c">>,
     <<"a", "a", "a", "a", "a", "a", "a">>, SystemName}

\* what follows /name on the lines clients send
NameArgs ==
    {<<>>, <<" ", "a">>, <<" ", "c">>, <<" ", "b">>, <<" ", "a", " ", "c">>,
     <<" ", "a", "/">>, <<" ", "a", "!">>, <<" ">> \o SystemName,
     <<" ", "a", "a", "a", "a", "a", "a", "a">>}

InitNames ==
    /\ InitServer
    /\ acc = AcceptorStarted
    /\ disp = DispatcherStarted
    /\ reap = ReaperStarted
    /\ life = LifeStarted
    /\ cl = ClientNew
    /\ rl = ClockOff
    /\ lg = SinkOff
    /\ vu = ValidateOff
    /\ lk = LocksOff
    /\ \E k \in 1..MaxNameChangesCfg :
          nm = [NamesOff EXCEPT !.pc = "auth", !.maxChanges = k,
                                !.maxLength = MaxNameLength,
                                !.activeNames = {<<"b">>}]

namesFrame == <<mainVars, life, cl, rl, lg, vu, lk>>

\* Authenticate, ChangeName and registerClient in handleConnection
NameAuthenticate(raw) ==
    /\ nm.pc = "auth"
    /\ LET n == TrimSpace(raw)
       IN IF ValidateUsernameText(n, nm.maxLength) # ""
          THEN nm' = [nm EXCEPT !.pc = "closed"]
          ELSE IF n \in nm.activeNames
          THEN nm' = [ChangeName(nm, n) EXCEPT !.pc = "closed"]
          ELSE nm' = [ChangeName(nm, n) EXCEPT
                        !.pc = "active", !.activeNames = @ \cup {n}]
    /\ UNCHANGED namesFrame

\* a line starting with /name goes through handleClientMessages and
\* handleNameChange
NameLine(arg) ==
    /\ nm.pc = "active"
    /\ Len(nm.log) < MaxNameLines
    /\ LET message == NameCommand \o arg
           out == NameOutcome(message)
           newName == TrimSpace(Fields(message)[2])
           entry == [message |-> message, out |-> out]
       IN IF out = "ok"
          THEN nm' = [ChangeName(nm, newName) EXCEPT
                        !.activeNames = (@ \ {nm.name}) \cup {newName},
                        !.bus = Append(@, [from |-> SystemName,
                                           byServer |-> TRUE]),
                        !.log = Append(@, entry)]
          ELSE nm' = [nm EXCEPT !.log = Append(@, entry)]
    /\ UNCHANGED namesFrame

\* a chat line is placed on the channel with From: c.Name()
NameChat ==
    /\ nm.pc = "active"
    /\ Cardinality({i \in 1..Len(nm.bus) : ~nm.bus[i].byServer}) < MaxChatLines
    /\ nm' = [nm EXCEPT !.bus = Append(@, [from |-> nm.name,
                                           byServer |-> FALSE])]
    /\ UNCHANGED namesFrame

NextNames ==
    \/ \E raw \in AuthLines : NameAuthenticate(raw)
    \/ \E arg \in NameArgs : NameLine(arg)
    \/ NameChat

SpecNames == InitNames /\ [][NextNames]_vars

\* ---- C22 ------------------------------------------------------------------
\* the /name lines before line i that changed the name
ChangesBefore(i) == Cardinality({j \in 1..(i - 1) : nm.log[j].out = "ok"})

\* C22: with MaxNameChanges = k configured, a /name line is never refused for
\* the limit before k changes were made, every well-formed /name line after
\* the k-th change is refused with "maximum name changes exceeded", and at all
\* times |nameHistory| is the number of changes made and at most k.
C22_NameChangeLimit ==
    /\ \A i \in 1..Len(nm.log) :
          /\ ChangesBefore(i) < nm.maxChanges => nm.log[i].out # "max"
          /\ (/\ ChangesBefore(i) >= nm.maxChanges
              /\ nm.log[i].out \notin {"format", "forbidden"})
                => nm.log[i].out = "max"
    /\ Len(nm.nameHistory) = ChangesBefore(Len(nm.log) + 1)
    /\ Len(nm.nameHistory) <= nm.maxChanges

\* ---- C30 ------------------------------------------------------------------
\* C30: no registered client is called SYSTEM, SYSTEM is not in activeNames,
\* and every message on the channel with From SYSTEM was made by the server.
C30_SystemReserved ==
    /\ nm.pc = "active" => nm.name # SystemName
    /\ SystemName \notin nm.activeNames
    /\ \A i \in 1..Len(nm.bus) :
          nm.bus[i].from = SystemName => nm.bus[i].byServer

\* ---- The log file ---------------------------------------------------------
\* A running server with one client that sends chat lines and one that only
\* listens.  cfg.LogFile is set or not, and opening it fails every time or
\* never.  The Dispatcher starts one logMessage goroutine per message; the
\* goroutines run in any order.

MaxSinkLines == 3       \* chat lines the client sends
MaxHandled == 6         \* messages the Dispatcher takes off the channel

\* a chat line of the client, and SystemMessage("error writing to log: ...")
ChatMessage == [from |-> "client", content |-> "chat"]

LogErrorMessage == [from |-> SYSTEM, content |-> "error writing to log"]

\* the sequence without its i-th element
RemoveAt(q, i) == SubSeq(q, 1, i - 1) \o SubSeq(q, i + 1, Len(q))

InitSink ==
    /\ InitServer
    /\ acc = AcceptorStarted
    /\ disp = DispatcherStarted
    /\ reap = ReaperStarted
    /\ life = LifeStarted
    /\ cl = ClientNew
    /\ rl = ClockOff
    /\ nm = NamesOff
    /\ vu = ValidateOff
    /\ lk = LocksOff
    /\ \E f, x \in BOOLEAN : lg = [SinkOff EXCEPT !.logFile = f, !.failing = x]

sinkFrame == <<mainVars, life, cl, rl, nm, vu, lk>>

\* handleClientMessages places a chat line on the channel
SinkClientLine ==
    /\ lg.lines < MaxSinkLines
    /\ ~Full(lg.broadcast)
    /\ lg' = [lg EXCEPT !.broadcast = Enqueue(@, ChatMessage),
                        !.lines = @ + 1]
    /\ UNCHANGED sinkFrame

\* broadcastLoop takes a message: append to s.messages, go s.logMessage(msg),
\* send to the Active clients other than the sender
SinkDispatch ==
    /\ lg.broadcast # <<>>
    /\ lg.handled < MaxHandled
    /\ LET msg == Head(lg.broadcast)
       IN lg' = [lg EXCEPT !.broadcast = Tail(@),
                           !.messages = Append(@, msg),
                           !.writers = Append(@, msg),
                           !.shown = Append(@, msg),
                           !.handled = @ + 1]
    /\ UNCHANGED sinkFrame

\* one logMessage goroutine runs: nothing without a log file; a line in the
\* file when it opens; otherwise the error message goes onto the channel
\* unless the channel is full (select with default)
SinkWrite(i) ==
    /\ i \in 1..Len(lg.writers)
    /\ LET msg == lg.writers[i]
       IN IF ~lg.logFile
          THEN lg' = [lg EXCEPT !.writers = RemoveAt(@, i)]
          ELSE IF ~lg.failing
          THEN lg' = [lg EXCEPT !.writers = RemoveAt(@, i),
                                !.file = Append(@, msg)]
          ELSE lg' = [lg EXCEPT
                        !.writers = RemoveAt(@, i),
                        !.broadcast = IF Full(@) THEN @
                                      ELSE Enqueue(@, LogErrorMessage)]
    /\ UNCHANGED sinkFrame

NextSink ==
    \/ SinkClientLine
    \/ SinkDispatch
    \/ \E i \in 1..MaxHandled : SinkWrite(i)

SpecSink == InitSink /\ [][NextSink]_vars

\* ---- C29 ------------------------------------------------------------------
\* C29: a failure of the log file puts no message on the channel, none into
\* s.messages and none before a client, and the Dispatcher handles no more
\* messages than lines were sent.
C29_SinkFailureSilent ==
    /\ \A q \in {lg.broadcast, lg.messages, lg.shown} :
          \A i \in 1..Len(q) : q[i] # LogErrorMessage
    /\ lg.handled <= lg.lines

\* ---- C32 ------------------------------------------------------------------
\* the notices that report the end of a session
FarewellKinds == {"left", "failure", "timeout"}

ActsFor(t) ==
    \/ pc[t] = "disc2" /\ pc'[t] = "disc3"
    \/ disp.pc = "disc2" /\ disp'.pc = "disc3" /\ Head(disp.failed) = t
    \/ reap.pc = "tick" /\ reap'.pc = "clean"
    \/ reap.pc = "clean" /\ reap'.pc = "close" /\ reap'.cur = t
    \/ pc[t] = "process" /\ name'[t] # name[t]

\* C38: the entry of a session in clients, and the name of that entry in
\* activeNames, are removed only by a step that disconnects, evicts or
\* renames that very session.
C38_OwnEntriesOnly ==
    [][\A n \in Names :
          LET t == clients[n]
          IN (/\ t # NoSession
              /\ \/ clients'[n] = NoSession
                 \/ n \in activeNames /\ n \notin activeNames')
             => ActsFor(t)]_vars

\* ---- C34 ------------------------------------------------------------------
\* C34: the Acceptor is not held up by a session: once it has started the
\* handler of a connection it is back in Accept, whether or not that
\* connection has sent its name or is in its read loop.
C34_AcceptorNotStalled ==
    (acc.pc = "wait" /\ acc.cur # NoSession) ~> (acc.pc = "accept")

\* ---- C40 ------------------------------------------------------------------
\* C40: a message on the channel is taken off it by a Dispatcher at its
\* receive, in one step with its appending to messages, and the Dispatcher
\* gets back to its receive after every message, whatever the recipients'
\* connections do.
C40_DispatcherLive ==
    /\ (disp.pc = "recv" /\ broadcast # <<>>) ~> (disp.pc = "snapshot")
    /\ (disp.pc # "recv") ~> (disp.pc = "recv")
    /\ [][(disp.pc = "recv" /\ disp'.pc # "recv")
            => /\ messages' = Append(messages, Head(broadcast))
               /\ broadcast' = Tail(broadcast)]_vars

\* C40, its case: the fan-out is over although the write to a recipient has
\* not returned
C40_Witness ==
    /\ disp.pc = "disc1"
    /\ pending[Head(disp.failed)] # 0

\* ---- C37 ------------------------------------------------------------------
\* s is about to place a chat line on the channel
PostingChat(s) ==
    pc[s] = "process" /\ line[s].type = "chat" /\ ~throttled[s]

\* C37: a task that is about to post always has a step to take, full channel
\* or not.  A handler posting a chat line has it accepted and reads on, or,
\* the channel being full, leaves its loop for the cleanup; a handler, the
\* Dispatcher or the Reaper posting a farewell has it accepted or, the channel
\* being full, drops it, and goes on with what follows the disconnect.
C37_PostNeverBlocks ==
    /\ [](\A s \in S :
            /\ PostingChat(s)
                 => ENABLED (ProcessChat(s) \/ ProcessChatTimeout(s))
            /\ pc[s] = "disc3" => ENABLED HandlerDisconnectPost(s))
    /\ [](disp.pc = "disc3" => ENABLED DispatchDisconnectPost)
    /\ [](reap.pc = "post" => ENABLED ReapPost)
    /\ [][\A s \in S :
            /\ (PostingChat(s) /\ pc'[s] # "process")
                 => IF Full(broadcast)
                    THEN pc'[s] = "cleanup" /\ broadcast' = broadcast
                    ELSE /\ pc'[s] = "loop"
                         /\ Len(broadcast') = Len(broadcast) + 1
                         /\ broadcast'[Len(broadcast')].origin = s
            /\ (pc[s] = "disc3" /\ pc'[s] # "disc3") => pc'[s] = "done"]_vars
    /\ [][(\/ \E s \in S : pc[s] = "disc3" /\ pc'[s] # "disc3"
           \/ disp.pc = "disc3" /\ disp'.pc # "disc3"
           \/ reap.pc = "post" /\ reap'.pc # "post")
            => IF Full(broadcast)
               THEN broadcast' = broadcast
               ELSE /\ Len(broadcast') = Len(broadcast) + 1
                    /\ broadcast'[Len(broadcast')].kind \in FarewellKinds]_vars

\* C37, its case: the channel stayed full while a handler tried to post a
\* chat line, and the handler has left its loop, its connection still open
C37_Witness ==
    \E s \in S :
        /\ pc[s] = "cleanup" /\ Full(broadcast)
        /\ state[s] = "Active" /\ ~connClosed[s] /\ ~peerClosed[s]

\* ---- C35 ------------------------------------------------------------------
\* C35: whatever the interleaving of Stop with acceptLoop, the Acceptor never
\* calls Accept on the listener reference Stop has set to nil, and the
\* process does not crash.
C35_AcceptorExitsCleanly == acc.pc # "panic" /\ ~life.crashed

\* ---- C36 ------------------------------------------------------------------
\* C36: a line beginning with /name is never refused by the rate limit, and
\* handling it, whatever the outcome, leaves lastMessageTime as it was.
C36_NameBeforeRateLimit ==
    \A i \in 1..Len(rl.log) :
        rl.log[i].kind = "name"
            => /\ rl.log[i].out # "wait"
               /\ rl.log[i].last = LastBefore(i)

\* ---- C39 ------------------------------------------------------------------
\* C39: a call of Start that returned an error holds no lock: when lnMu is
\* held on behalf of Start, a call of Start is still between its Lock and its
\* return.
C39_FailedStartHoldsNoLock ==
    (/\ \E j \in StartCalls :
           life.start[j].pc = "done" /\ life.start[j].ret # "nil"
     /\ life.lnMu = "start")
        => \E j \in StartCalls : life.start[j].pc \in {"check", "listen"}

\* ---- ValidateUsername, code point by code point ---------------------------
\* One call of ValidateUsername on a name given as the sequence of its code
\* points, with a limit of 1 to 3: the ranges and the byte length are computed
\* as the Go code computes them.

MaxValidateLength == 3  \* largest maxLength tried
MaxRunes == 4           \* longest name tried, in code points

\* the code points names are made of: tab, LF, CR, space, and the neighbours
\* of '0'-'9', 'A'-'Z', '_' and 'a'-'z', a no-break space and an e acute
CodePoints ==
    {9, 10, 13, 32, 47, 48, 57, 58, 64, 65, 90, 91, 95, 96, 97, 122, 123,
     160, 233}

\* unicode.IsSpace, on the Latin-1 range
IsSpace(c) == c \in {9, 10, 11, 12, 13, 32, 133, 160}

\* bytes of the UTF-8 encoding of a code point below U+0800
RuneLen(c) == IF c < 128 THEN 1 ELSE 2

\* len(name): bytes
RECURSIVE ByteLen(_)
ByteLen(n) == IF n = <<>> THEN 0 ELSE RuneLen(Head(n)) + ByteLen(Tail(n))

RECURSIVE TrimLeftRunes(_)
TrimLeftRunes(n) ==
    IF n # <<>> /\ IsSpace(Head(n)) THEN TrimLeftRunes(Tail(n)) ELSE n

RECURSIVE TrimRightRunes(_)
TrimRightRunes(n) ==
    IF n # <<>> /\ IsSpace(n[Len(n)])
    THEN TrimRightRunes(SubSeq(n, 1, Len(n) - 1))
    ELSE n

\* strings.TrimSpace
TrimSpaceRunes(n) == TrimRightRunes(TrimLeftRunes(n))

\* the character test in the loop of ValidateUsername
AllowedRune(c) ==
    \/ c >= 97 /\ c <= 122
    \/ c >= 65 /\ c <= 90
    \/ c >= 48 /\ c <= 57
    \/ c = 95
    \/ c = 32

\* altered ValidateUsername: a name of exactly maxLength is too long
ValidateUsernameShort(n, maxLength) ==
    LET trimmed == TrimSpaceRunes(n)
    IN IF ByteLen(trimmed) = 0 THEN "empty"
       ELSE IF trimmed # n THEN "spaces"
       ELSE IF ByteLen(n) >= maxLength THEN "long"
       ELSE IF \E i \in 1..Len(n) : ~AllowedRune(n[i]) THEN "chars"
       ELSE ""

\* client.ValidateUsername: "" for nil, otherwise which check failed
ValidateUsernameRunes(n, maxLength) ==
    LET trimmed == TrimSpaceRunes(n)
    IN IF ByteLen(trimmed) = 0 THEN "empty"
       ELSE IF trimmed # n THEN "spaces"
       ELSE IF ByteLen(n) > maxLength THEN "long"
       ELSE IF \E i \in 1..Len(n) : ~AllowedRune(n[i]) THEN "chars"
       ELSE ""

\* the names of up to MaxRunes code points
RuneNames == UNION {[1..k -> CodePoints] : k \in 0..MaxRunes}

InitValidate ==
    /\ InitServer
    /\ acc = AcceptorStarted
    /\ disp = DispatcherStarted
    /\ reap = ReaperStarted
    /\ life = LifeStarted
    /\ cl = ClientNew
    /\ rl = ClockOff
    /\ nm = NamesOff
    /\ lg = SinkOff
    /\ lk = LocksOff
    /\ \E n \in RuneNames : \E m \in 1..MaxValidateLength :
          vu = [ValidateOff EXCEPT !.name = n, !.max = m]

\* ValidateUsername is called and returns
ValidateCall ==
    /\ vu.result = "none"
    /\ vu' = [vu EXCEPT !.result = ValidateUsernameRunes(vu.name, vu.max)]
    /\ UNCHANGED <<mainVars, life, cl, rl, nm, lg, lk>>

NextValidate == ValidateCall

SpecValidate == InitValidate /\ [][NextValidate]_vars

\* ---- C31 ------------------------------------------------------------------
\* ASCII letters, ASCII digits, underscore and space
PermittedCodePoints == (65..90) \cup (97..122) \cup (48..57) \cup {95, 32}

\* tab, LF, CR and the other white space
WhiteSpace == {9, 10, 11, 12, 13, 32, 133, 160}

\* the name is what the claim calls acceptable
Acceptable(n, max) ==
    /\ n # <<>>
    /\ n[1] \notin WhiteSpace /\ n[Len(n)] \notin WhiteSpace
    /\ Len(n) <= max
    /\ \A i \in 1..Len(n) : n[i] \in PermittedCodePoints

\* C31: ValidateUsername returns nil exactly for the names that are not
\* empty, have no white space at either end, are at most max long and are
\* made of ASCII letters, ASCII digits, underscore and space; a permitted
\* name of exactly max characters is accepted and one of max + 1 rejected;
\* a name with a tab, a CR or an LF in it is rejected.
C31_ValidateUsername ==
    vu.result # "none"
    => /\ (vu.result = "") <=> Acceptable(vu.name, vu.max)
       /\ (/\ Len(vu.name) = vu.max
           /\ \A i \in 1..Len(vu.name) : vu.name[i] \in PermittedCodePoints \ {32})
             => vu.result = ""
       /\ Len(vu.name) = vu.max + 1 => vu.result # ""
       /\ (\E i \in 1..Len(vu.name) : vu.name[i] \in {9, 10, 13})
             => vu.result # ""

\* C31, its case: a name of exactly max characters with a space inside was
\* accepted
C31_Witness ==
    /\ vu.result = ""
    /\ Len(vu.name) = vu.max
    /\ \E i \in 1..Len(vu.name) : vu.name[i] = 32

\* ---- The registry locks ---------------------------------------------------
\* The tasks that take clientsMu and activeNamesMu, each running its locking
\* code over and over: the end of Stop, disconnectClient (a handler or the
\* Dispatcher), handleNameChange, registerClient, the Reaper's two passes and
\* the Dispatcher's snapshot.  Nothing in the server orders one against
\* another.

\* the lock operations of each task, in program order
LockProgram(k) ==
    CASE k = "stop" ->
           <<<<"Lock", "activeNamesMu">>, <<"Lock", "clientsMu">>,
             <<"Unlock", "clientsMu">>, <<"Unlock", "activeNamesMu">>>>
      [] k = "disconnect" ->
           <<<<"Lock", "clientsMu">>, <<"Lock", "activeNamesMu">>,
             <<"Unlock", "activeNamesMu">>, <<"Unlock", "clientsMu">>>>
      [] k = "rename" ->
           <<<<"Lock", "clientsMu">>, <<"Lock", "activeNamesMu">>,
             <<"Unlock", "clientsMu">>, <<"Unlock", "activeNamesMu">>>>
      [] k = "register" ->
           <<<<"Lock", "activeNamesMu">>, <<"Unlock", "activeNamesMu">>,
             <<"Lock", "clientsMu">>, <<"Unlock", "clientsMu">>>>
      [] k = "reaper" ->
           <<<<"Lock", "clientsMu">>, <<"Unlock", "clientsMu">>,
             <<"Lock", "activeNamesMu">>, <<"Unlock", "activeNamesMu">>>>
      [] k = "dispatcher" ->
           <<<<"RLock", "clientsMu">>, <<"RUnlock", "clientsMu">>>>

\* the operation task k is at
NextOp(k) == LockProgram(k)[lk.at[k] + 1]

\* at[k] once k has done its operation
Advance(k) ==
    [lk.at EXCEPT ![k] = IF @ + 1 = Len(LockProgram(k)) THEN 0 ELSE @ + 1]

InitLocks ==
    /\ InitServer
    /\ acc = AcceptorStarted
    /\ disp = DispatcherStarted
    /\ reap = ReaperStarted
    /\ life = LifeStarted
    /\ cl = ClientNew
    /\ rl = ClockOff
    /\ nm = NamesOff
    /\ lg = SinkOff
    /\ vu = ValidateOff
    /\ lk = LocksOff

locksFrame == <<mainVars, life, cl, rl, nm, lg, vu>>

\* sync.RWMutex.Lock
MuLock(k) ==
    /\ NextOp(k)[1] = "Lock"
    /\ IF NextOp(k)[2] = "clientsMu"
       THEN /\ lk.clientsMu = "free" /\ lk.readers = {}
            /\ lk' = [lk EXCEPT !.clientsMu = k, !.at = Advance(k)]
       ELSE /\ lk.activeNamesMu = "free"
            /\ lk' = [lk EXCEPT !.activeNamesMu = k, !.at = Advance(k)]
    /\ UNCHANGED locksFrame

\* sync.RWMutex.Unlock
MuUnlock(k) ==
    /\ NextOp(k)[1] = "Unlock"
    /\ IF NextOp(k)[2] = "clientsMu"
       THEN lk' = [lk EXCEPT !.clientsMu = "free", !.at = Advance(k)]
       ELSE lk' = [lk EXCEPT !.activeNamesMu = "free", !.at = Advance(k)]
    /\ UNCHANGED locksFrame

\* sync.RWMutex.RLock on clientsMu
MuRLock(k) ==
    /\ NextOp(k)[1] = "RLock"
    /\ lk.clientsMu = "free"
    /\ lk' = [lk EXCEPT !.readers = @ \cup {k}, !.at = Advance(k)]
    /\ UNCHANGED locksFrame

\* sync.RWMutex.RUnlock on clientsMu
MuRUnlock(k) ==
    /\ NextOp(k)[1] = "RUnlock"
    /\ lk' = [lk EXCEPT !.readers = @ \ {k}, !.at = Advance(k)]
    /\ UNCHANGED locksFrame

NextLocks ==
    \/ \E k \in LockTasks : MuLock(k)
    \/ \E k \in LockTasks : MuUnlock(k)
    \/ \E k \in LockTasks : MuRLock(k)
    \/ \E k \in LockTasks : MuRUnlock(k)

SpecLocks == InitLocks /\ [][NextLocks]_vars

\* ---- C33 ------------------------------------------------------------------
\* task k is blocked in Lock on this mutex, which task h holds
WaitsFor(k, h) ==
    /\ NextOp(k)[1] = "Lock"
    /\ IF NextOp(k)[2] = "clientsMu" THEN lk.clientsMu = h
                                     ELSE lk.activeNamesMu = h

\* C33: no task asks for clientsMu while it holds activeNamesMu, and no two
\* tasks wait for each other's lock.
C33_LockOrder ==
    /\ \A k \in LockTasks :
          lk.activeNamesMu = k => NextOp(k) # <<"Lock", "clientsMu">>
    /\ ~\E k, h \in LockTasks : k # h /\ WaitsFor(k, h) /\ WaitsFor(h, k)

====
